---- MODULE Spec2Model ----
\* Session bridge of an ACP conversation (AcpAgentManager): single-flight
\* bootstrap of the agent subprocess, the mutation API, the dispatch of the
\* agent's stream events and the history-index reconciliation.
EXTENDS Integers, Sequences, FiniteSets, TLC

VARIABLES
    options,      \* this.options: the construction data of the manager
    bootstrap,    \* this.bootstrap: the cached start promise and its state
    bootError,    \* the error the bootstrap promise rejected with
    agent,        \* this.agent: number of the AcpAgent instance held, 0 = undefined
    startCount,   \* how many times new AcpAgent(...) + agent.start() ran
    sessionId,    \* agent.getSessionId(): the active remote session
    calls,        \* the API calls in progress, one record per caller slot
    transcript,   \* the transcript store of the conversation (ordered messages)
    emitted,      \* the most recent events emitted on
                  \* ipcBridge.acpConversation.responseStream, oldest first
    list,         \* MessageList: the messages the renderer shows (useMessageList)
    resolved,     \* MessageList: the last resolveHistoryIndex call and its result
    config,       \* ProcessConfig: the stored 'acp.customAgents' and 'acp.config' entries
    launch,       \* the launch parameters the AcpAgent was constructed with
    previews,     \* how many notices handlePreviewOpenEvent handled itself
    stopped,      \* stop() was called: 'stop.stream' was posted
    facade,       \* acpConversationBridge: the provider call of each caller slot
    slash,        \* useSlashCommands: state, refs, debounce timer, fetches in flight
    dialog,       \* MessageList: the state of the edit dialog and its requests
    migrated      \* migrations: the last call and what it returned or ran

vars == <<options, bootstrap, bootError, agent, startCount, sessionId, calls, transcript,
          emitted, list, resolved, config, launch, previews, stopped, facade, slash,
          dialog, migrated>>

\* the state of the renderer hooks and of the migrations
uiVars == <<slash, dialog, migrated>>

\* every variable of the bridge and of the message list
bridgeVars ==
    <<options, bootstrap, bootError, agent, startCount, sessionId, calls, transcript,
      emitted, list, resolved, config, launch, previews, stopped>>

-----------------------------------------------------------------------------
\* Bounds of the model.

\* concurrent callers of initAgent
MaxCalls == 3
\* concurrent callers of the manager's operations
MaxConc == 2
\* concurrent callers when every operation, with every input, is in play
MaxSeqCalls == 1
\* messages the transcript holds at most
MaxMsgs == 2
\* events of the response stream kept: the most recent ones
MaxEmit == 2
\* agent constructions counted at most
MaxStarts == 2
\* largest remote history index announced
MaxIndex == 2
\* messages the renderer's list holds at most
MaxList == 3
\* preview notices handled
MaxPreviews == 1
\* the greatest version number passed to the migration functions
MaxVersion == 9
\* completion fetches in flight at most
MaxFetches == 2
\* RPCs of the edit dialog in flight at most
MaxRequests == 2

Calls == 1..MaxCalls
ConcCalls == 1..MaxConc
SeqCalls == 1..MaxSeqCalls

-----------------------------------------------------------------------------
\* Values.

NoSession == "none"
InitialSession == "s1"
NewSessions == {"s2", "s3"}
Sessions == {InitialSession} \cup NewSessions

NoError == "none"
BootErrors == {"eSpawn", "eAuth"}
RpcError == "eRpc"
NoSessionError == "No active ACP session"
TypeError == "TypeError"

\* typeof msg.historyIndex !== 'number'
NoIndex == -1

\* Message identities: caller-supplied msg_id values and generated uuids.
NoId == <<"none", 0>>
MsgIds == {<<"m", n>> : n \in 1..(MaxMsgs + MaxCalls + 1)}
Uuid(n) == <<"u", n>>

\* Text contents, as sequences of characters.
Contents == { <<"h", "i">>, <<"/", "h">>, <<"/">>, <<>> }

Backends == {"claude", "custom"}
\* a built-in backend, and a custom backend constructed without customAgentId
OptionSet == { [backend |-> "claude", customAgentId |-> FALSE, cliPath |-> <<>>],
               [backend |-> "custom", customAgentId |-> FALSE, cliPath |-> <<>>] }

InitOps == {"initAgent", "sendMessage", "getEditableMessage", "editMessage",
            "regenerateMessage", "deleteMessage", "saveFromPoint"}
BootstrapOps == {"confirmMessage", "completeCommand"}
SessionOps == {"getEditableMessage", "editMessage", "regenerateMessage",
               "deleteMessage", "saveFromPoint"}
MutationOps == {"editMessage", "regenerateMessage", "deleteMessage", "saveFromPoint"}
\* the operations that return the result of callMethod unchanged
ReturnsResult == {"getEditableMessage", "editMessage", "regenerateMessage", "saveFromPoint"}
AdoptOps_All == MutationOps
AdoptOps == {"editMessage", "regenerateMessage"}
Ops == InitOps \cup BootstrapOps

NoData == [content |-> <<>>, msg_id |-> NoId]

IdleCall == [op |-> "none", pc |-> "idle", awaits |-> "none", data |-> NoData,
             method |-> "none", sid |-> NoSession, res |-> "none", ret |-> NoSession]

-----------------------------------------------------------------------------
\* Transcript store (the functions imported from ../message).

addMessage(t, m) == Append(t, m)

addOrUpdateMessage(t, m) ==
    IF \E i \in 1..Len(t) : t[i].id = m.id
    THEN [i \in 1..Len(t) |-> IF t[i].id = m.id THEN m ELSE t[i]]
    ELSE Append(t, m)

clearMessages(t) == <<>>

UsedIds(t) == {t[i].id : i \in 1..Len(t)} \cup {t[i].msg_id : i \in 1..Len(t)}

\* uuid(): an identity no message of the transcript carries, other than `but`
uuid(t, but) ==
    Uuid(CHOOSE n \in 1..(2 * MaxMsgs + 2) :
            /\ Uuid(n) \notin UsedIds(t) \cup {but}
            /\ \A k \in 1..(n - 1) : Uuid(k) \in UsedIds(t) \cup {but})

-----------------------------------------------------------------------------
\* Strings.

IsSpace(ch) == ch = " "

RECURSIVE TrimLeft(_)
TrimLeft(s) == IF s # <<>> /\ IsSpace(Head(s)) THEN TrimLeft(Tail(s)) ELSE s

RECURSIVE TrimRight(_)
TrimRight(s) ==
    IF s # <<>> /\ IsSpace(s[Len(s)]) THEN TrimRight(SubSeq(s, 1, Len(s) - 1)) ELSE s

\* String.prototype.trim
trim(s) == TrimRight(TrimLeft(s))

\* String.prototype.startsWith, for a one-character prefix
startsWith(s, ch) == s # <<>> /\ Head(s) = ch

-----------------------------------------------------------------------------
\* Messages and events.

Message(id, msgId, type, position, content) ==
    [id |-> id, msg_id |-> msgId, type |-> type, position |-> position,
     historyIndex |-> NoIndex, content |-> content]

Event(type, msgId, data, idx) == [type |-> type, msg_id |-> msgId, data |-> data, idx |-> idx]

NoIdx == <<NoIndex, NoIndex>>

\* ipcBridge.acpConversation.responseStream.emit(v)
emit(log, v) ==
    IF Len(log) < MaxEmit THEN Append(log, v) ELSE Append(Tail(log), v)

\* transformMessage, for an 'error' response: a tips message with its own id
transformError(t, msgId, e) == Message(uuid(t, msgId), msgId, "tips", "center", <<e>>)

\* sendMessage: the user message of lines 168-178
userMessage(data) == Message(data.msg_id, data.msg_id, "text", "right", data.content)

isSlashCommand_Never(content) == FALSE

isSlashCommand_AnySlash(content) == startsWith(trim(content), "/")

\* sendMessage: isSlashCommand of lines 164-165
isSlashCommand(content) == startsWith(trim(content), "/") /\ Len(trim(content)) > 1

persistsUserMessage_NotNegated(data) ==
    data.msg_id # NoId /\ data.content # <<>> /\ isSlashCommand(data.content)

persistsUserMessage_IgnoresMsgId(data) ==
    data.content # <<>> /\ ~isSlashCommand(data.content)

\* sendMessage: the condition of line 167
persistsUserMessage(data) ==
    data.msg_id # NoId /\ data.content # <<>> /\ ~isSlashCommand(data.content)

catchPersist_Skipped(t, data, e) == t

\* sendMessage: the transcript after the catch block's persistence, lines 190-201
catchPersist(t, data, e) ==
    LET msgId == IF data.msg_id # NoId THEN data.msg_id ELSE uuid(t, NoId)
    IN  addOrUpdateMessage(t, transformError(t, msgId, e))

\* sendMessage: the error event the catch block emits, lines 190-204
catchEvent(t, data, e) ==
    LET msgId == IF data.msg_id # NoId THEN data.msg_id ELSE uuid(t, NoId)
    IN  Event("error", msgId, <<e>>, NoIdx)

-----------------------------------------------------------------------------
\* History-index reconciliation.

\* applyHistoryIndexUpdate, lines 136 and 146: the test of the backward scans
isUnindexedText(msg, position) ==
    msg.type = "text" /\ msg.position = position /\ msg.historyIndex = NoIndex

\* a scan from the oldest message on
RECURSIVE scanForwardFrom(_, _, _)
scanForwardFrom(t, i, position) ==
    IF i > Len(t) THEN 0
    ELSE IF t[i].type = "text" /\ t[i].position = position /\ t[i].historyIndex = NoIndex
         THEN i
    ELSE scanForwardFrom(t, i + 1, position)

scanBackward_Forward(t, i, position) == scanForwardFrom(t, 1, position)

\* applyHistoryIndexUpdate, lines 134-140 and 144-150: for (i = length - 1; i >= 0; i--)
\* with break on the first match; 0 when the loop ends without a match
RECURSIVE scanBackward(_, _, _)
scanBackward(t, i, position) ==
    IF i = 0 THEN 0
    ELSE IF isUnindexedText(t[i], position) THEN i
    ELSE scanBackward(t, i - 1, position)

assignHistoryIndex_OverwritesLast(t, position, index) ==
    LET i == scanBackward(t, Len(t), position)
        S == {k \in 1..Len(t) : t[k].type = "text" /\ t[k].position = position}
    IN  IF i # 0 THEN [t EXCEPT ![i].historyIndex = index]
        ELSE IF S = {} THEN t
        ELSE [t EXCEPT ![CHOOSE k \in S : \A n \in S : n <= k].historyIndex = index]

\* applyHistoryIndexUpdate, lines 134-140 and 144-150: the assignment to the match
assignHistoryIndex(t, position, index) ==
    LET i == scanBackward(t, Len(t), position)
    IN  IF i = 0 THEN t ELSE [t EXCEPT ![i].historyIndex = index]

applyHistoryIndexUpdate_EitherOr(t, payload) ==
    IF payload[1] # NoIndex /\ scanBackward(t, Len(t), "right") # 0
    THEN [t EXCEPT ![scanBackward(t, Len(t), "right")].historyIndex = payload[1]]
    ELSE IF payload[2] # NoIndex /\ scanBackward(t, Len(t), "left") # 0
    THEN [t EXCEPT ![scanBackward(t, Len(t), "left")].historyIndex = payload[2]]
    ELSE t

\* applyHistoryIndexUpdate, lines 127-155; payload = <<lastUserIndex, lastModelIndex>>,
\* NoIndex standing for a field that is not a number
applyHistoryIndexUpdate(t, payload) ==
    LET hasUserIndex == payload[1] # NoIndex
        hasModelIndex == payload[2] # NoIndex
        afterUser == IF hasUserIndex THEN assignHistoryIndex(t, "right", payload[1]) ELSE t
    IN  IF hasModelIndex THEN assignHistoryIndex(afterUser, "left", payload[2]) ELSE afterUser

-----------------------------------------------------------------------------
\* Launch parameters of the agent subprocess.

\* Paths and command strings are sequences of characters; the empty string and
\* undefined are both falsy and are one value here.
NoPath == <<>>

\* string[] | undefined
NoArgs == [given |-> FALSE, list |-> <<>>]
Args(l) == [given |-> TRUE, list |-> l]

NoCustomAgent == [found |-> FALSE, defaultCliPath |-> NoPath, acpArgs |-> NoArgs]

\* no custom agent configured, no path configured for the backend
EmptyConfig ==
    [customAgent |-> NoCustomAgent, backend |-> [cliPath |-> NoPath, acpArgs |-> NoArgs]]

NoLaunch == [cliPath |-> NoPath, customArgs |-> NoArgs]

\* String.prototype.split(/\s+/): the pieces between the runs of whitespace,
\* an empty piece before a leading and after a trailing run
RECURSIVE splitWhitespace(_, _, _)
splitWhitespace(s, piece, inRun) ==
    IF s = <<>> THEN <<piece>>
    ELSE IF IsSpace(Head(s))
         THEN IF inRun
              THEN splitWhitespace(Tail(s), piece, TRUE)
              ELSE <<piece>> \o splitWhitespace(Tail(s), <<>>, TRUE)
         ELSE splitWhitespace(Tail(s), Append(piece, Head(s)), FALSE)

split(s) == splitWhitespace(s, <<>>, FALSE)

customArgsOf_ParsedFirst(parts, acpArgs) ==
    IF Len(parts) > 1 THEN Args(Tail(parts))
    ELSE IF acpArgs.given THEN acpArgs
    ELSE NoArgs

\* initAgent, lines 58-62: acpArgs > args parsed from defaultCliPath
customArgsOf(parts, acpArgs) ==
    IF acpArgs.given THEN acpArgs
    ELSE IF Len(parts) > 1 THEN Args(Tail(parts))
    ELSE NoArgs

\* initAgent, lines 47-64: the custom backend, customAgentConfig found by id
customLaunch(data, customAgentConfig) ==
    IF customAgentConfig.found /\ customAgentConfig.defaultCliPath # NoPath
    THEN LET parts == split(trim(customAgentConfig.defaultCliPath))
         IN  [cliPath |-> parts[1],
              customArgs |-> customArgsOf(parts, customAgentConfig.acpArgs)]
    ELSE [cliPath |-> data.cliPath, customArgs |-> NoArgs]

\* initAgent, lines 65-76: a built-in backend
builtinLaunch(data, backendConfig) ==
    [cliPath |-> IF data.cliPath = NoPath /\ backendConfig.cliPath # NoPath
                 THEN backendConfig.cliPath
                 ELSE data.cliPath,
     customArgs |-> IF backendConfig.acpArgs.given THEN backendConfig.acpArgs ELSE NoArgs]

\* initAgent, lines 41-81: cliPath and customArgs passed to new AcpAgent
resolveLaunch(data, cfg) ==
    IF data.backend = "custom" /\ data.customAgentId
    THEN customLaunch(data, cfg.customAgent)
    ELSE IF data.backend # "custom"
    THEN builtinLaunch(data, cfg.backend)
    ELSE [cliPath |-> data.cliPath, customArgs |-> NoArgs]

-----------------------------------------------------------------------------
\* Bootstrap.

BootstrapCached_Never == FALSE

\* initAgent, line 39: if (this.bootstrap) return this.bootstrap
BootstrapCached == bootstrap # "none"

\* initAgent, lines 47-70: both configured branches await ProcessConfig.get
awaitsConfig(o) == (o.backend = "custom" /\ o.customAgentId) \/ o.backend # "custom"

\* initAgent, lines 38-125, up to the first suspension of the start routine
initAgent ==
    IF BootstrapCached
    THEN UNCHANGED <<bootstrap, bootError, agent, startCount, launch>>
    ELSE IF awaitsConfig(options)
         THEN /\ bootstrap' = "config"
              /\ bootError' = NoError
              /\ UNCHANGED <<agent, startCount, launch>>
         ELSE /\ startCount < MaxStarts
              /\ bootstrap' = "starting"
              /\ bootError' = NoError
              /\ startCount' = startCount + 1
              /\ agent' = startCount + 1
              /\ launch' = resolveLaunch(options, config)

\* initAgent, lines 83-122: the configuration arrived; construct and start the agent
ConfigLoaded ==
    /\ bootstrap = "config"
    /\ startCount < MaxStarts
    /\ bootstrap' = "starting"
    /\ startCount' = startCount + 1
    /\ agent' = startCount + 1
    /\ launch' = resolveLaunch(options, config)
    /\ UNCHANGED <<facade, uiVars, config, previews, stopped, list, resolved, options, bootError, sessionId,
                   calls, transcript, emitted>>

\* agent.start() resolved; the agent may or may not hold a session afterwards
StartResolved(s) ==
    /\ bootstrap = "starting"
    /\ bootstrap' = "resolved"
    /\ sessionId' = s
    /\ UNCHANGED <<facade, uiVars, config, launch, previews, stopped, list, resolved, options,
                   bootError, agent, startCount, calls, transcript, emitted>>

\* agent.start() rejected
StartRejected(e) ==
    /\ bootstrap = "starting"
    /\ bootstrap' = "rejected"
    /\ bootError' = e
    /\ UNCHANGED <<facade, uiVars, config, launch, previews, stopped, list, resolved, options,
                   agent, startCount, sessionId, calls, transcript, emitted>>

-----------------------------------------------------------------------------
\* API calls.

ActiveSends == {c \in Calls : calls[c].op = "sendMessage" /\ calls[c].pc # "done"}

IdsInUse == UsedIds(transcript) \cup {calls[c].data.msg_id : c \in Calls}

\* the msg_id a caller generates for a new message: one not yet in use
FreshMsgId ==
    CHOOSE m \in MsgIds :
        /\ m \notin IdsInUse
        /\ \A n \in 1..(m[2] - 1) : <<"m", n>> \in IdsInUse

\* room in the transcript for the messages a further sendMessage can produce
RoomToSend == Len(transcript) + 2 * (Cardinality(ActiveSends) + 1) <= MaxMsgs

\* An operation of the manager is entered; it runs to its first await.
Enter(c, op, data) ==
    /\ calls[c].pc = "idle"
    /\ \A b \in 1..(c - 1) : calls[b].pc # "idle"
    /\ IF op = "sendMessage"
       THEN RoomToSend /\ data.msg_id \in {NoId, FreshMsgId}
       ELSE data = NoData
    /\ IF op \in InitOps
       THEN initAgent
       ELSE UNCHANGED <<bootstrap, bootError, agent, startCount, launch>>
    /\ calls' = [calls EXCEPT ![c] =
                    [IdleCall EXCEPT !.op = op, !.pc = "awaitBoot", !.data = data,
                        !.awaits = IF op \in BootstrapOps /\ bootstrap = "none"
                                   THEN "undefined" ELSE "bootstrap"]]
    /\ UNCHANGED <<uiVars, config, previews, stopped, list, resolved, options, sessionId, transcript,
                   emitted>>

\* A caller enters an operation directly.
Invoke(c, op, data) == Enter(c, op, data) /\ UNCHANGED facade

-----------------------------------------------------------------------------
\* Events of the agent.

NoMessage == Message(NoId, NoId, "none", "none", <<>>)

AgentIds == {<<"a", n>> : n \in 1..(MaxMsgs + 1)}

\* the msg_id of the agent's next new message
FreshAgentId ==
    CHOOSE a \in AgentIds :
        /\ a \notin UsedIds(transcript)
        /\ \A n \in 1..(a[2] - 1) : <<"a", n>> \in UsedIds(transcript)

IndexValues == {NoIndex} \cup 1..MaxIndex

\* the content events the agent delivers in the present state
StreamEvents ==
    {Event("preview_open", NoId, <<>>, NoIdx),
     Event("clear_history", NoId, <<>>, NoIdx),
     Event("thought", NoId, <<"t">>, NoIdx),
     Event("finish", NoId, <<>>, NoIdx)}
    \cup {Event("history_index_update", NoId, <<>>, <<u, m>>) :
            u \in IndexValues, m \in IndexValues}
    \cup {Event("content", a, <<"o", "k">>, NoIdx) :
            a \in (AgentIds \cap UsedIds(transcript)) \cup {FreshAgentId}}

SignalEvents == {Event("acp_status", NoId, <<>>, NoIdx)}

\* the identity of the message the mapping makes of a thought event
ThoughtId == <<"t", 0>>

\* handlePreviewOpenEvent: true for the navigation notices it handles itself
handlePreviewOpenEvent(v) == v.type = "preview_open"

\* transformMessage: the message of a response event, NoMessage when it has none
transformMessage(v) ==
    IF v.type = "content" THEN Message(v.msg_id, v.msg_id, "text", "left", v.data)
    ELSE IF v.type = "thought" THEN Message(ThoughtId, ThoughtId, "tips", "center", v.data)
    ELSE NoMessage

\* the events come from a constructed agent whose subprocess runs
AgentRuns == agent # 0 /\ bootstrap \in {"starting", "resolved"}

\* room in the transcript for the message of a content event
RoomFor(t) == Len(t) + 2 * Cardinality(ActiveSends) <= MaxMsgs

absorbsEvent_Never(v) == FALSE

\* onStreamEvent, lines 93-95: the notice is handled by handlePreviewOpenEvent
absorbsEvent(v) == handlePreviewOpenEvent(v)

isClearHistory_Never(v) == FALSE

\* onStreamEvent, line 97
isClearHistory(v) == v.type = "clear_history"

isHistoryIndexUpdate_Never(v) == FALSE

\* onStreamEvent, line 103
isHistoryIndexUpdate(v) == v.type = "history_index_update"

persistsEvent_Always(v) == TRUE

\* onStreamEvent, line 109: if (v.type !== 'thought')
persistsEvent(v) == v.type # "thought"

upsertEvent_Appends(t, v) ==
    IF transformMessage(v) # NoMessage
    THEN addMessage(t, transformMessage(v))
    ELSE t

\* onStreamEvent, lines 110-113: the transcript after the event's message, if
\* it has one, was upserted
upsertEvent(t, v) ==
    IF transformMessage(v) # NoMessage
    THEN addOrUpdateMessage(t, transformMessage(v))
    ELSE t

OnStreamEvent_SwallowsClearHistory(v) ==
    /\ AgentRuns
    /\ IF absorbsEvent(v)
       THEN /\ previews < MaxPreviews
            /\ previews' = previews + 1
            /\ UNCHANGED <<transcript, emitted>>
       ELSE /\ UNCHANGED previews
            /\ IF isClearHistory(v)
               THEN /\ transcript' = clearMessages(transcript)
                    /\ emitted' = emitted
               ELSE IF isHistoryIndexUpdate(v)
               THEN /\ transcript' = applyHistoryIndexUpdate(transcript, v.idx)
                    /\ emitted' = emit(emitted, v)
               ELSE /\ IF persistsEvent(v)
                       THEN transcript' = upsertEvent(transcript, v)
                       ELSE transcript' = transcript
                    /\ RoomFor(transcript')
                    /\ emitted' = emit(emitted, v)
    /\ UNCHANGED <<facade, uiVars, config, launch, stopped, list, resolved, options, bootstrap, bootError,
                   agent, startCount, sessionId, calls>>

\* onStreamEvent, lines 90-116
OnStreamEvent(v) ==
    /\ AgentRuns
    /\ IF absorbsEvent(v)
       THEN /\ previews < MaxPreviews
            /\ previews' = previews + 1
            /\ UNCHANGED <<transcript, emitted>>
       ELSE /\ UNCHANGED previews
            /\ IF isClearHistory(v)
               THEN /\ transcript' = clearMessages(transcript)
                    /\ emitted' = emit(emitted, v)
               ELSE IF isHistoryIndexUpdate(v)
               THEN /\ transcript' = applyHistoryIndexUpdate(transcript, v.idx)
                    /\ emitted' = emit(emitted, v)
               ELSE /\ IF persistsEvent(v)
                       THEN transcript' = upsertEvent(transcript, v)
                       ELSE transcript' = transcript
                    /\ RoomFor(transcript')
                    /\ emitted' = emit(emitted, v)
    /\ UNCHANGED <<facade, uiVars, config, launch, stopped, list, resolved, options, bootstrap, bootError,
                   agent, startCount, sessionId, calls>>

\* onSignalEvent, lines 117-120
OnSignalEvent(v) ==
    /\ AgentRuns
    /\ emitted' = emit(emitted, v)
    /\ UNCHANGED <<facade, uiVars, config, launch, previews, stopped, list, resolved, options,
                   bootstrap, bootError, agent, startCount, sessionId, calls,
                   transcript>>

\* BaseAgentManager.stop, lines 386-388: posts 'stop.stream'; the manager's own
\* fields (bootstrap, agent) and the calls awaiting the agent are not touched
Stop ==
    /\ ~stopped
    /\ stopped' = TRUE
    /\ UNCHANGED <<facade, uiVars, config, launch, previews, list, resolved, options, bootstrap, bootError,
                   agent, startCount, sessionId, calls, transcript, emitted>>

\* the promise the call awaits has settled (await undefined settles at once)
Settled(c) == calls[c].awaits = "undefined" \/ bootstrap \in {"resolved", "rejected"}

\* the awaited bootstrap promise rejected
BootFailed(c) == calls[c].awaits = "bootstrap" /\ bootstrap = "rejected"

\* the async function ends: its promise settles with res (and value ret);
\* no request of the call is in flight any more
Finish(c, res, ret) ==
    calls' = [calls EXCEPT ![c].pc = "done", ![c].awaits = "none",
                           ![c].method = "none", ![c].sid = NoSession,
                           ![c].res = res, ![c].ret = ret]

\* the call issues a request to the agent and awaits the answer
Request(c, method, sid) ==
    calls' = [calls EXCEPT ![c].pc = "rpc", ![c].method = method, ![c].sid = sid]

RpcMethod(op) ==
    CASE op = "getEditableMessage" -> "session/getMessageForEdit"
      [] op = "editMessage" -> "session/editMessage"
      [] op = "regenerateMessage" -> "session/regenerate"
      [] op = "deleteMessage" -> "session/deleteMessage"
      [] op = "saveFromPoint" -> "session/saveFromPoint"
      [] op = "completeCommand" -> "commands/complete"
      [] op = "confirmMessage" -> "confirmMessage"
      [] op = "sendMessage" -> "sendMessage"
      [] OTHER -> "none"

requireSessionIdThrows_Never == FALSE

\* requireSessionId, lines 218-224: throws when the agent has no session id
requireSessionIdThrows == sessionId = NoSession

adoptSessionId_Ignored(newSessionId) == sessionId

\* editMessage / regenerateMessage, lines 282-284 and 305-307
adoptSessionId(newSessionId) ==
    IF newSessionId # NoSession THEN newSessionId ELSE sessionId

\* initAgent called directly: the caller awaits the cached promise
ResumeInit(c) ==
    /\ calls[c].pc = "awaitBoot" /\ calls[c].op = "initAgent"
    /\ Settled(c)
    /\ IF BootFailed(c) THEN Finish(c, bootError, NoSession) ELSE Finish(c, "ok", NoSession)
    /\ UNCHANGED <<facade, uiVars, config, launch, previews, stopped, list, resolved, options,
                   bootstrap, bootError, agent, startCount, sessionId,
                   transcript, emitted>>

\* sendMessage, lines 189-209: the catch block up to nextTickToLocalFinish
SendCatch(c, e) ==
    /\ transcript' = catchPersist(transcript, calls[c].data, e)
    /\ emitted' = emit(emitted, catchEvent(transcript, calls[c].data, e))
    /\ calls' = [calls EXCEPT ![c].pc = "tick", ![c].awaits = "none",
                              ![c].method = "none", ![c].res = e]

\* sendMessage, lines 163-188: after the bootstrap settled, up to the dispatch
ResumeSend(c) ==
    /\ calls[c].pc = "awaitBoot" /\ calls[c].op = "sendMessage"
    /\ Settled(c)
    /\ IF BootFailed(c)
       THEN SendCatch(c, bootError)
       ELSE /\ IF persistsUserMessage(calls[c].data)
               THEN /\ transcript' = addMessage(transcript, userMessage(calls[c].data))
                    /\ emitted' = emit(emitted,
                          Event("user_content", calls[c].data.msg_id,
                                calls[c].data.content, NoIdx))
               ELSE UNCHANGED <<transcript, emitted>>
            /\ Request(c, RpcMethod("sendMessage"), NoSession)
    /\ UNCHANGED <<facade, uiVars, config, launch, previews, stopped, list, resolved, options,
                   bootstrap, bootError, agent, startCount, sessionId>>

ResumeSession_Locked(c) ==
    /\ calls[c].pc = "awaitBoot" /\ calls[c].op \in SessionOps
    /\ Settled(c)
    /\ \A d \in Calls \ {c} : calls[d].pc # "rpc"
    /\ IF BootFailed(c)
       THEN Finish(c, bootError, NoSession)
       ELSE IF requireSessionIdThrows
            THEN Finish(c, NoSessionError, NoSession)
            ELSE Request(c, RpcMethod(calls[c].op), sessionId)
    /\ UNCHANGED <<facade, uiVars, config, launch, previews, stopped, list, resolved, options,
                   bootstrap, bootError, agent, startCount, sessionId,
                   transcript, emitted>>

\* getEditableMessage, editMessage, regenerateMessage, deleteMessage,
\* saveFromPoint: after await initAgent, the session check and the request
ResumeSession(c) ==
    /\ calls[c].pc = "awaitBoot" /\ calls[c].op \in SessionOps
    /\ Settled(c)
    /\ IF BootFailed(c)
       THEN Finish(c, bootError, NoSession)
       ELSE IF requireSessionIdThrows
            THEN Finish(c, NoSessionError, NoSession)
            ELSE Request(c, RpcMethod(calls[c].op), sessionId)
    /\ UNCHANGED <<facade, uiVars, config, launch, previews, stopped, list, resolved, options,
                   bootstrap, bootError, agent, startCount, sessionId,
                   transcript, emitted>>

\* confirmMessage, lines 213-216, and completeCommand, lines 229-237: after
\* await this.bootstrap; this.agent is undefined until the agent is constructed
ResumeBootstrapOp(c) ==
    /\ calls[c].pc = "awaitBoot" /\ calls[c].op \in BootstrapOps
    /\ Settled(c)
    /\ IF BootFailed(c)
       THEN Finish(c, bootError, NoSession)
       ELSE IF agent = 0
            THEN Finish(c, TypeError, NoSession)
            ELSE Request(c, RpcMethod(calls[c].op),
                         IF calls[c].op = "completeCommand" THEN sessionId ELSE NoSession)
    /\ UNCHANGED <<facade, uiVars, config, launch, previews, stopped, list, resolved, options,
                   bootstrap, bootError, agent, startCount, sessionId,
                   transcript, emitted>>

\* the agent answered the request, with or without a newSessionId in its
\* result; edit and regenerate adopt it, and the operations that return the
\* result as it came hand it to their caller
RpcResolved(c, newSessionId) ==
    /\ calls[c].pc = "rpc"
    /\ bootstrap = "resolved"
    /\ sessionId' = IF calls[c].op \in AdoptOps
                    THEN adoptSessionId(newSessionId) ELSE sessionId
    /\ Finish(c, "ok", IF calls[c].op \in ReturnsResult THEN newSessionId ELSE NoSession)
    /\ UNCHANGED <<facade, uiVars, config, launch, previews, stopped, list, resolved, options,
                   bootstrap, bootError, agent, startCount, transcript, emitted>>

RpcRejected_DropsSession(c) ==
    /\ calls[c].pc = "rpc" /\ calls[c].op # "sendMessage"
    /\ Finish(c, RpcError, NoSession)
    /\ sessionId' = NoSession
    /\ UNCHANGED <<facade, uiVars, config, launch, previews, stopped, list, resolved, options,
                   bootstrap, bootError, agent, startCount, transcript, emitted>>

\* the request failed, for every operation but sendMessage: the error propagates
RpcRejected(c) ==
    /\ calls[c].pc = "rpc" /\ calls[c].op # "sendMessage"
    /\ Finish(c, RpcError, NoSession)
    /\ UNCHANGED <<facade, uiVars, config, launch, previews, stopped, list, resolved, options,
                   bootstrap, bootError, agent, startCount, sessionId,
                   transcript, emitted>>

\* agent.sendMessage threw: the catch block of sendMessage
SendRejected(c) ==
    /\ calls[c].pc = "rpc" /\ calls[c].op = "sendMessage"
    /\ SendCatch(c, RpcError)
    /\ UNCHANGED <<facade, uiVars, config, launch, previews, stopped, list, resolved, options,
                   bootstrap, bootError, agent, startCount, sessionId>>

\* sendMessage, lines 205-209: nextTickToLocalFinish runs reject(e)
LocalFinish(c) ==
    /\ calls[c].pc = "tick"
    /\ calls' = [calls EXCEPT ![c].pc = "done"]
    /\ UNCHANGED <<facade, uiVars, config, launch, previews, stopped, list, resolved, options,
                   bootstrap, bootError, agent, startCount, sessionId,
                   transcript, emitted>>

\* the caller has observed the outcome; the slot serves a later call
Return(c) ==
    /\ calls[c].pc = "done"
    /\ calls' = [calls EXCEPT ![c] = IdleCall]
    /\ UNCHANGED <<facade, uiVars, config, launch, previews, stopped, list, resolved, options,
                   bootstrap, bootError, agent, startCount, sessionId,
                   transcript, emitted>>

-----------------------------------------------------------------------------
\* Renderer: the message list (MessageList.tsx).

\* gemini-cli initial environment context
HISTORY_MESSAGE_OFFSET == 1

\* resolveHistoryIndex: return null
Null == -2

isEditableTextMessage_AnySide(message) == message.type = "text"

isEditableTextMessage(message) ==
    message.type = "text" /\ message.position \in {"left", "right"}

isEditableToolGroup(message) ==
    message.type = "tool_group" /\ message.historyIndex # NoIndex

isEditableMessage(message) == isEditableTextMessage(message) \/ isEditableToolGroup(message)

\* resolveHistoryIndex, lines 206-216: for (const entry of list), from entry k on,
\* ordinal being the count kept so far
RECURSIVE ordinalScan(_, _, _, _)
ordinalScan(l, k, ordinal, message) ==
    IF k > Len(l) THEN Null
    ELSE IF ~isEditableTextMessage(l[k]) THEN ordinalScan(l, k + 1, ordinal, message)
    ELSE IF l[k].id = message.id THEN (ordinal + 1) + HISTORY_MESSAGE_OFFSET
    ELSE ordinalScan(l, k + 1, ordinal + 1, message)

resolveHistoryIndex_IgnoresStored(l, message) == ordinalScan(l, 1, -1, message)

\* resolveHistoryIndex, lines 201-219
resolveHistoryIndex(l, message) ==
    IF message.historyIndex # NoIndex
    THEN message.historyIndex
    ELSE ordinalScan(l, 1, -1, message)

NotResolved == [message |-> NoMessage, index |-> Null]

\* the renderer resolves the history index of a message
ResolveHistoryIndex(message) ==
    /\ resolved' = [message |-> message, index |-> resolveHistoryIndex(list, message)]
    /\ UNCHANGED <<facade, uiVars, config, launch, previews, stopped, list, options,
                   bootstrap, bootError, agent, startCount, sessionId, calls,
                   transcript, emitted>>

-----------------------------------------------------------------------------
\* Facade: the providers of acpConversationBridge.ts.

UpperCase == <<"A", "B", "C", "D", "E", "F", "G", "H", "I", "J", "K", "L", "M", "N", "O", "P", "Q", "R", "S", "T", "U", "V", "W", "X", "Y", "Z">>
LowerCase == <<"a", "b", "c", "d", "e", "f", "g", "h", "i", "j", "k", "l", "m", "n", "o", "p", "q", "r", "s", "t", "u", "v", "w", "x", "y", "z">>

\* String.prototype.toLowerCase
toLowerChar(ch) ==
    IF \E k \in 1..Len(UpperCase) : UpperCase[k] = ch
    THEN LowerCase[CHOOSE k \in 1..Len(UpperCase) : UpperCase[k] = ch]
    ELSE ch

toLowerCase(s) == [i \in 1..Len(s) |-> toLowerChar(s[i])]

\* String.prototype.startsWith with a string argument
startsWithText(s, prefix) == Len(prefix) <= Len(s) /\ SubSeq(s, 1, Len(prefix)) = prefix

\* staticCommands, lines 87-94: the names
staticCommands ==
    << <<"/", "h", "e", "l", "p">>,
       <<"/", "c", "o", "p", "y">>,
       <<"/", "c", "h", "a", "t", " ", "s", "a", "v", "e">>,
       <<"/", "c", "h", "a", "t", " ", "r", "e", "s", "u", "m", "e">>,
       <<"/", "c", "h", "a", "t", " ", "l", "i", "s", "t">>,
       <<"/", "c", "h", "a", "t", " ", "d", "e", "l", "e", "t", "e">> >>

staticCompletions_CaseSensitive(partial) ==
    LET matches(name) == startsWithText(toLowerCase(name), partial)
    IN  SelectSeq(staticCommands, matches)

\* completeCommand provider, lines 96-97
staticCompletions(partial) ==
    LET matches(name) == startsWithText(toLowerCase(name), toLowerCase(partial))
    IN  SelectSeq(staticCommands, matches)

\* the sessionId / conversation_id of a request: none, this conversation, a
\* conversation whose task is not an ACP one, a conversation without a task
NoTarget == "none"
ProviderTargets == {NoTarget, "acp", "gemini", "unknown"}

\* WorkerManage.getTaskById(id)?.type
taskType(target) == IF target \in {"acp", "gemini"} THEN target ELSE "none"

ProviderMethods == {"completeCommand", "confirmMessage"}

\* the partial inputs of completeCommand
Partials ==
    { <<>>, <<"/", "C", "H">>, <<"/", "c", "h", "a", "t", " ", "r">>, <<"/", "x">> }

NoResult == [success |-> FALSE, msg |-> "none", hasData |-> FALSE, data |-> <<>>]

Success(hasData, data) == [success |-> TRUE, msg |-> "none", hasData |-> hasData, data |-> data]

Failure(msg) == [success |-> FALSE, msg |-> msg, hasData |-> FALSE, data |-> <<>>]

IdleProvider ==
    [pc |-> "idle", method |-> "none", target |-> NoTarget, partial |-> <<>>,
     result |-> NoResult]

\* the provider returned: its promise resolved with the result
Resolved(method, target, partial, result) ==
    [pc |-> "done", method |-> method, target |-> target, partial |-> partial,
     result |-> result]

\* the provider's promise rejected: the error reached the RPC caller
Thrown(method, target, partial, e) ==
    [pc |-> "threw", method |-> method, target |-> target, partial |-> partial,
     result |-> Failure(e)]

providerOutcome_Rethrows(p, res) ==
    IF res = "ok"
    THEN Resolved(p.method, p.target, p.partial, Success(p.method = "completeCommand", <<>>))
    ELSE Thrown(p.method, p.target, p.partial, res)

\* lines 24-29 and 108-115: the awaited call of the task returned or threw
providerOutcome(p, res) ==
    IF res = "ok"
    THEN Resolved(p.method, p.target, p.partial, Success(p.method = "completeCommand", <<>>))
    ELSE Resolved(p.method, p.target, p.partial, Failure(res))

\* lines 15-22, 85-105: what the provider returns without calling the task
\* (NoResult: it goes on to call the task)
providerShortcut(method, target, partial) ==
    IF method = "completeCommand"
    THEN IF target = NoTarget THEN Success(TRUE, staticCompletions(partial))
         ELSE IF taskType(target) # "acp" THEN Failure("ACP session not found")
         ELSE NoResult
    ELSE IF taskType(target) = "none" THEN Failure("conversation not found")
         ELSE IF taskType(target) # "acp" THEN Failure("not support")
         ELSE NoResult

\* a provider is called: lines 14-30 and 82-116 up to the await of the task
ProviderCall(c, method, target, partial) ==
    /\ facade[c].pc = "idle"
    /\ calls[c].pc = "idle"
    /\ IF providerShortcut(method, target, partial) # NoResult
       THEN /\ facade' = [facade EXCEPT ![c] =
                   Resolved(method, target, partial, providerShortcut(method, target, partial))]
            /\ UNCHANGED <<bridgeVars, uiVars>>
       ELSE /\ facade' = [facade EXCEPT ![c] =
                   [IdleProvider EXCEPT !.pc = "await", !.method = method,
                                        !.target = target, !.partial = partial]]
            /\ Enter(c, method, NoData)

\* the call of the task settled: the provider returns its result object
ProviderReturn(c) ==
    /\ facade[c].pc = "await"
    /\ calls[c].pc = "done"
    /\ facade' = [facade EXCEPT ![c] = providerOutcome(facade[c], calls[c].res)]
    /\ calls' = [calls EXCEPT ![c] = IdleCall]
    /\ UNCHANGED <<uiVars, config, launch, previews, stopped, list, resolved, options,
                   bootstrap, bootError, agent, startCount, sessionId, transcript, emitted>>

\* the RPC caller has the outcome; the slot serves a later request
ProviderDone(c) ==
    /\ facade[c].pc \in {"done", "threw"}
    /\ facade' = [facade EXCEPT ![c] = IdleProvider]
    /\ UNCHANGED <<bridgeVars, uiVars>>

-----------------------------------------------------------------------------
\* Slash-command autocomplete: the hook of useSlashCommands.ts.

\* STATIC_COMMANDS, lines 55-68: the names
STATIC_COMMANDS ==
    staticCommands \o
    << <<"/", "c", "o", "n", "d", "u", "c", "t", "o", "r", ":", "s", "t", "a", "t", "u", "s">>,
       <<"/", "c", "o", "n", "d", "u", "c", "t", "o", "r", ":", "s", "e", "t", "u", "p">>,
       <<"/", "c", "o", "n", "d", "u", "c", "t", "o", "r", ":", "n", "e", "w", "T", "r", "a", "c", "k">>,
       <<"/", "c", "o", "n", "d", "u", "c", "t", "o", "r", ":", "i", "m", "p", "l", "e", "m", "e", "n", "t">>,
       <<"/", "c", "o", "n", "d", "u", "c", "t", "o", "r", ":", "r", "e", "v", "e", "r", "t">> >>

\* filterStaticCommands, lines 101-104
filterStaticCommands(input) ==
    LET matches(name) == startsWithText(toLowerCase(name), toLowerCase(input))
    IN  SelectSeq(STATIC_COMMANDS, matches)

\* the class \w of a regular expression
IsWord(ch) ==
    \/ \E k \in 1..Len(LowerCase) : LowerCase[k] = ch
    \/ \E k \in 1..Len(UpperCase) : UpperCase[k] = ch
    \/ ch \in {"0", "1", "2", "3", "4", "5", "6", "7", "8", "9", "_"}

\* the first position from i on that holds no \w character
RECURSIVE skipWord(_, _)
skipWord(s, i) == IF i <= Len(s) /\ IsWord(s[i]) THEN skipWord(s, i + 1) ELSE i

\* the first position from i on that holds no \s character
RECURSIVE skipSpace(_, _)
skipSpace(s, i) == IF i <= Len(s) /\ IsSpace(s[i]) THEN skipSpace(s, i + 1) ELSE i

\* line 138: input.match(/^\/\w+\s+\w*\s+/i)
matchesSubcommandArg(s) ==
    LET i1 == skipWord(s, 2)
        i2 == skipSpace(s, i1)
        i3 == skipWord(s, i2)
        i4 == skipSpace(s, i3)
    IN  /\ startsWith(s, "/")
        /\ i1 > 2
        /\ i2 > i1
        /\ \/ i3 > i2 /\ i4 > i3
           \/ i3 = i2 /\ i2 - i1 >= 2

\* line 139: input.match(/^\/\w+:\w+\s+/i)
matchesExtensionArg(s) ==
    LET i1 == skipWord(s, 2)
        i2 == skipWord(s, i1 + 1)
    IN  /\ startsWith(s, "/")
        /\ i1 > 2
        /\ i1 <= Len(s)
        /\ s[i1] = ":"
        /\ i2 > i1 + 1
        /\ skipSpace(s, i2) > i2

\* lines 137-139
needsBackendFetch(input) == matchesSubcommandArg(input) \/ matchesExtensionArg(input)

\* line 117: input.length > 50
MaxInputLength == 50

\* the state of the hook after its first render, lines 80-89; dismissed and
\* last record what the hook did (close or select since the last input; the
\* outcome of its last step)
InitialSlash(isFlux, hasFetch) ==
    [isFlux |-> isFlux, hasFetch |-> hasFetch, lastInput |-> <<>>,
     suggestions |-> <<>>, show |-> FALSE, highlight |-> 0,
     timer |-> <<>>, fetches |-> <<>>, dismissed |-> FALSE, last |-> "init"]

inputUnchanged_Always(s, input) == TRUE

\* lines 144 and 149: lastInputRef.current !== input
inputUnchanged(s, input) == s.lastInput = input

\* lines 130-162: the debounce timer after an input change
timerAfterInput(s, input, staticResults) ==
    IF ~s.hasFetch THEN s.timer
    ELSE IF needsBackendFetch(input) \/ staticResults = <<>>
         THEN <<input>>
         ELSE <<>>

\* handleInputChange, lines 107-165
HandleInputChange(input) ==
    /\ slash' =
         IF ~slash.isFlux \/ ~startsWith(input, "/") \/ Len(input) > MaxInputLength
         THEN [slash EXCEPT !.lastInput = input, !.show = FALSE,
                            !.dismissed = FALSE, !.last = "ignored"]
         ELSE LET staticResults == filterStaticCommands(input)
              IN  [slash EXCEPT !.lastInput = input,
                                !.suggestions = staticResults,
                                !.show = staticResults # <<>>,
                                !.highlight = 0,
                                !.timer = timerAfterInput(slash, input, staticResults),
                                !.dismissed = FALSE, !.last = "input"]
    /\ UNCHANGED <<bridgeVars, facade, dialog, migrated>>

\* the debounce timer fires, lines 143-147: the fetch starts unless the input
\* changed
TimerFires ==
    /\ slash.timer # <<>>
    /\ inputUnchanged(slash, slash.timer[1]) => Len(slash.fetches) < MaxFetches
    /\ slash' =
         IF inputUnchanged(slash, slash.timer[1])
         THEN [slash EXCEPT !.timer = <<>>,
                            !.fetches = Append(@, slash.timer[1]),
                            !.last = "fetching"]
         ELSE [slash EXCEPT !.timer = <<>>, !.last = "skipped"]
    /\ UNCHANGED <<bridgeVars, facade, dialog, migrated>>

\* the sequence without its k-th element
RemoveAt(s, k) == SubSeq(s, 1, k - 1) \o SubSeq(s, k + 1, Len(s))

\* fetchCompletions resolved, lines 148-157
FetchResolves(k, results) ==
    /\ k \in 1..Len(slash.fetches)
    /\ slash' =
         IF ~inputUnchanged(slash, slash.fetches[k])
         THEN [slash EXCEPT !.fetches = RemoveAt(@, k), !.last = "stale"]
         ELSE IF results = <<>>
         THEN [slash EXCEPT !.fetches = RemoveAt(@, k), !.last = "empty"]
         ELSE [slash EXCEPT !.fetches = RemoveAt(@, k), !.suggestions = results,
                            !.show = TRUE, !.highlight = 0, !.last = "applied"]
    /\ UNCHANGED <<bridgeVars, facade, dialog, migrated>>

\* fetchCompletions rejected, lines 158-160
FetchRejects(k) ==
    /\ k \in 1..Len(slash.fetches)
    /\ slash' = [slash EXCEPT !.fetches = RemoveAt(@, k), !.last = "failed"]
    /\ UNCHANGED <<bridgeVars, facade, dialog, migrated>>

\* selectCommand, lines 168-183
SelectCommand ==
    /\ slash' = [slash EXCEPT !.show = FALSE, !.dismissed = TRUE, !.last = "selected"]
    /\ UNCHANGED <<bridgeVars, facade, dialog, migrated>>

\* closeAutocomplete, lines 186-191
CloseAutocomplete ==
    /\ slash' = [slash EXCEPT !.show = FALSE, !.timer = <<>>,
                              !.dismissed = TRUE, !.last = "closed"]
    /\ UNCHANGED <<bridgeVars, facade, dialog, migrated>>

\* lines 194-196: the updater of highlightUp
highlightUp(s) ==
    IF s.highlight > 0 THEN s.highlight - 1 ELSE Len(s.suggestions) - 1

highlightDown_NoWrap(s) == s.highlight + 1

\* lines 198-200: the updater of highlightDown
highlightDown(s) ==
    IF s.highlight < Len(s.suggestions) - 1 THEN s.highlight + 1 ELSE 0

HighlightUp ==
    /\ slash' = [slash EXCEPT !.highlight = highlightUp(slash), !.last = "up"]
    /\ UNCHANGED <<bridgeVars, facade, dialog, migrated>>

HighlightDown ==
    /\ slash' = [slash EXCEPT !.highlight = highlightDown(slash), !.last = "down"]
    /\ UNCHANGED <<bridgeVars, facade, dialog, migrated>>

\* getHighlightedCommand returns null
NoCommand == <<>>

\* getHighlightedCommand, lines 203-208
getHighlightedCommand(s) ==
    IF s.highlight >= 0 /\ s.highlight < Len(s.suggestions)
    THEN s.suggestions[s.highlight + 1]
    ELSE NoCommand

-----------------------------------------------------------------------------
\* Edit dialog: the state and handlers of MessageList.tsx.

\* undefined or null in a field of the dialog
Unset == "none"

\* the state of the dialog after the first render, lines 179-188; requests are
\* the RPCs in flight, toast the last message shown by messageApi
ClosedDialog ==
    [visible |-> FALSE, loading |-> FALSE, content |-> <<>>, mode |-> "inPlace",
     index |-> Null, tokenSetId |-> Unset, format |-> Unset, messageId |-> Unset,
     parts |-> <<>>, overrides |-> {}, requests |-> <<>>, toast |-> Unset]

\* lines 486-493 and 502-509: the dialog closed and its fields cleared
cleared(d) ==
    [d EXCEPT !.visible = FALSE, !.content = <<>>, !.index = Null,
              !.messageId = Unset, !.tokenSetId = Unset, !.format = Unset,
              !.parts = <<>>, !.overrides = {}]

\* startEdit, lines 369-381: up to the await of getEditableMessage
StartEdit(historyIndex, mode, messageId) ==
    /\ Len(dialog.requests) < MaxRequests
    /\ dialog' = [dialog EXCEPT !.mode = mode, !.index = historyIndex,
                                !.messageId = messageId, !.content = <<>>,
                                !.tokenSetId = Unset, !.format = Unset,
                                !.parts = <<>>, !.overrides = {},
                                !.visible = TRUE, !.loading = TRUE,
                                !.requests = Append(@, [kind |-> "load",
                                                        index |-> historyIndex,
                                                        content |-> <<>>])]
    /\ UNCHANGED <<bridgeVars, facade, slash, migrated>>

\* startEdit, lines 383-404: getEditableMessage settled
LoadSettled(k, result) ==
    /\ k \in 1..Len(dialog.requests)
    /\ dialog.requests[k].kind = "load"
    /\ dialog' =
         IF result.success
         THEN [dialog EXCEPT !.index = IF result.resolvedIndex # Null
                                       THEN result.resolvedIndex
                                       ELSE dialog.requests[k].index,
                             !.content = result.content,
                             !.tokenSetId = result.tokenSetId,
                             !.format = result.format,
                             !.parts = result.parts,
                             !.loading = FALSE,
                             !.requests = RemoveAt(@, k)]
         ELSE [dialog EXCEPT !.toast = "Failed to load editable content.",
                             !.visible = FALSE,
                             !.loading = FALSE,
                             !.requests = RemoveAt(@, k)]
    /\ UNCHANGED <<bridgeVars, facade, slash, migrated>>

\* line 726: the text area changes the draft
SetEditContent(content) ==
    /\ dialog.visible
    /\ dialog' = [dialog EXCEPT !.content = content]
    /\ UNCHANGED <<bridgeVars, facade, slash, migrated>>

\* handlePartSave, lines 305-318: the part of a token is replaced
HandlePartSave(tokenId) ==
    /\ dialog.visible
    /\ \E i \in 1..Len(dialog.parts) : dialog.parts[i] = tokenId
    /\ dialog' = [dialog EXCEPT !.overrides = @ \cup {tokenId}]
    /\ UNCHANGED <<bridgeVars, facade, slash, migrated>>

issuesEditRpc_Always(d) == TRUE

\* lines 459-462: handleEditConfirm goes on to the RPC
issuesEditRpc(d) == d.index # Null

\* handleEditConfirm, lines 458-475: up to the await of editMessage
HandleEditConfirm ==
    /\ issuesEditRpc(dialog) => Len(dialog.requests) < MaxRequests
    /\ dialog' =
         IF ~issuesEditRpc(dialog)
         THEN [dialog EXCEPT !.toast = "Unable to edit this message."]
         ELSE [dialog EXCEPT !.loading = TRUE,
                             !.requests = Append(@, [kind |-> "edit",
                                                     index |-> dialog.index,
                                                     content |-> dialog.content])]
    /\ UNCHANGED <<bridgeVars, facade, slash, migrated>>

afterEditFailure_Closes(d) == [cleared(d) EXCEPT !.toast = "Failed to update message."]

\* lines 494-495: the catch of handleEditConfirm
afterEditFailure(d) == [d EXCEPT !.toast = "Failed to update message."]

\* lines 485-493: the edit RPC succeeded
afterEditSuccess(d) == [cleared(d) EXCEPT !.toast = "Saved successfully"]

\* handleEditConfirm, lines 481-498: editMessage settled
EditSettled(k, success) ==
    /\ k \in 1..Len(dialog.requests)
    /\ dialog.requests[k].kind = "edit"
    /\ dialog' =
         [(IF success THEN afterEditSuccess(dialog) ELSE afterEditFailure(dialog))
            EXCEPT !.loading = FALSE, !.requests = RemoveAt(@, k)]
    /\ UNCHANGED <<bridgeVars, facade, slash, migrated>>

\* handleEditCancel, lines 501-511
HandleEditCancel ==
    /\ dialog' = cleared(dialog)
    /\ UNCHANGED <<bridgeVars, facade, slash, migrated>>

-----------------------------------------------------------------------------
\* Database migrations.

\* ALL_MIGRATIONS, line 713: the migrations by their version
ALL_MIGRATIONS == <<1, 2, 3, 4, 5, 6, 7, 8>>

\* the versions a caller passes
VersionInputs == 0..MaxVersion

\* Array.prototype.sort with a comparator on the version, as an insertion sort
RECURSIVE insertSorted(_, _, _)
insertSorted(v, s, ascending) ==
    IF s = <<>> THEN <<v>>
    ELSE IF (IF ascending THEN v < Head(s) ELSE v > Head(s))
         THEN <<v>> \o s
         ELSE <<Head(s)>> \o insertSorted(v, Tail(s), ascending)

RECURSIVE sortByVersion(_, _)
sortByVersion(s, ascending) ==
    IF s = <<>> THEN <<>>
    ELSE insertSorted(Head(s), sortByVersion(Tail(s), ascending), ascending)

getMigrationsToRun_Inclusive(fromVersion, toVersion) ==
    LET wanted(v) == v >= fromVersion /\ v <= toVersion
    IN  sortByVersion(SelectSeq(ALL_MIGRATIONS, wanted), TRUE)

\* getMigrationsToRun, lines 718-720
getMigrationsToRun(fromVersion, toVersion) ==
    LET wanted(v) == v > fromVersion /\ v <= toVersion
    IN  sortByVersion(SelectSeq(ALL_MIGRATIONS, wanted), TRUE)

\* getMigrationsToRollback, lines 725-727
getMigrationsToRollback(fromVersion, toVersion) ==
    LET wanted(v) == v > toVersion /\ v <= fromVersion
    IN  sortByVersion(SelectSeq(ALL_MIGRATIONS, wanted), FALSE)

NotMigrated ==
    [op |-> "none", from |-> 0, to |-> 0, result |-> <<>>, ran |-> <<>>,
     committed |-> <<>>, threw |-> FALSE]

\* the migrations whose up() was called when the one of version failAt throws
\* (failAt = 0: none throws)
RECURSIVE upTo(_, _)
upTo(migrations, failAt) ==
    IF migrations = <<>> THEN <<>>
    ELSE IF Head(migrations) = failAt THEN <<Head(migrations)>>
    ELSE <<Head(migrations)>> \o upTo(Tail(migrations), failAt)

\* runMigrations, lines 732-773; the transaction commits all or nothing
runMigrations(fromVersion, toVersion, failAt) ==
    IF fromVersion = toVersion
    THEN [NotMigrated EXCEPT !.op = "runMigrations", !.from = fromVersion, !.to = toVersion]
    ELSE IF fromVersion > toVersion
    THEN [NotMigrated EXCEPT !.op = "runMigrations", !.from = fromVersion, !.to = toVersion,
                             !.threw = TRUE]
    ELSE LET migrations == getMigrationsToRun(fromVersion, toVersion)
             fails == \E i \in 1..Len(migrations) : migrations[i] = failAt
         IN  [op |-> "runMigrations", from |-> fromVersion, to |-> toVersion,
              result |-> <<>>,
              ran |-> upTo(migrations, failAt),
              committed |-> IF fails THEN <<>> ELSE migrations,
              threw |-> fails]

GetMigrationsToRun(fromVersion, toVersion) ==
    /\ migrated' = [NotMigrated EXCEPT !.op = "getMigrationsToRun",
                                       !.from = fromVersion, !.to = toVersion,
                                       !.result = getMigrationsToRun(fromVersion, toVersion)]
    /\ UNCHANGED <<bridgeVars, facade, slash, dialog>>

GetMigrationsToRollback(fromVersion, toVersion) ==
    /\ migrated' = [NotMigrated EXCEPT !.op = "getMigrationsToRollback",
                                       !.from = fromVersion, !.to = toVersion,
                                       !.result = getMigrationsToRollback(fromVersion, toVersion)]
    /\ UNCHANGED <<bridgeVars, facade, slash, dialog>>

RunMigrations(fromVersion, toVersion, failAt) ==
    /\ migrated' = runMigrations(fromVersion, toVersion, failAt)
    /\ UNCHANGED <<bridgeVars, facade, slash, dialog>>

Init ==
    /\ options \in OptionSet
    /\ bootstrap = "none"
    /\ bootError = NoError
    /\ agent = 0
    /\ startCount = 0
    /\ sessionId = NoSession
    /\ calls = [c \in Calls |-> IdleCall]
    /\ transcript = <<>>
    /\ emitted = <<>>
    /\ list = <<>>
    /\ resolved = NotResolved
    /\ config = EmptyConfig
    /\ launch = NoLaunch
    /\ previews = 0
    /\ stopped = FALSE
    /\ facade = [c \in Calls |-> IdleProvider]
    /\ slash = InitialSlash(TRUE, TRUE)
    /\ dialog = ClosedDialog
    /\ migrated = NotMigrated

SendData == [content : Contents, msg_id : MsgIds \cup {NoId}]

\* The whole API on a fresh bridge.
Next ==
    \/ \E c \in SeqCalls, op \in Ops \ {"sendMessage"} : Invoke(c, op, NoData)
    \/ \E c \in SeqCalls, d \in SendData : Invoke(c, "sendMessage", d)
    \/ ConfigLoaded
    \/ \E s \in {NoSession, InitialSession} : StartResolved(s)
    \/ \E e \in BootErrors : StartRejected(e)
    \/ \E c \in SeqCalls : ResumeInit(c)
    \/ \E c \in SeqCalls : ResumeSend(c)
    \/ \E c \in SeqCalls : ResumeSession(c)
    \/ \E c \in SeqCalls : ResumeBootstrapOp(c)
    \/ \E c \in SeqCalls, n \in NewSessions \cup {NoSession} : RpcResolved(c, n)
    \/ \E c \in SeqCalls : RpcRejected(c)
    \/ \E c \in SeqCalls : SendRejected(c)
    \/ \E c \in SeqCalls : LocalFinish(c)
    \/ \E c \in SeqCalls : Return(c)

Spec == Init /\ [][Next]_vars

\* Callers of initAgent racing for the bootstrap of a fresh bridge.
NextBoot ==
    \/ \E c \in Calls : Invoke(c, "initAgent", NoData)
    \/ ConfigLoaded
    \/ \E s \in {NoSession, InitialSession} : StartResolved(s)
    \/ \E e \in BootErrors : StartRejected(e)
    \/ \E c \in Calls : ResumeInit(c)
    \/ \E c \in Calls : Return(c)

SpecBoot == Init /\ [][NextBoot]_vars

\* what a caller sends while the bootstrap is bound to fail
FailSendData == [content : {<<"h", "i">>}, msg_id : {NoId, FreshMsgId}]

\* Concurrent callers of every operation on a bridge whose agent.start() rejects.
NextBootFail ==
    \/ \E c \in ConcCalls, op \in Ops \ {"sendMessage"} : Invoke(c, op, NoData)
    \/ \E c \in ConcCalls, d \in FailSendData : Invoke(c, "sendMessage", d)
    \/ ConfigLoaded
    \/ \E e \in BootErrors : StartRejected(e)
    \/ \E c \in ConcCalls : ResumeInit(c)
    \/ \E c \in ConcCalls : ResumeSend(c)
    \/ \E c \in ConcCalls : ResumeSession(c)
    \/ \E c \in ConcCalls : ResumeBootstrapOp(c)
    \/ \E c \in ConcCalls : RpcRejected(c)
    \/ \E c \in ConcCalls : LocalFinish(c)
    \/ \E c \in ConcCalls : Return(c)

SpecBootFail == Init /\ [][NextBootFail]_vars

\* A bridge whose agent was started and holds a session: the state after a
\* successful bootstrap, with or without a first message sent.
FirstSend == [content |-> <<"h", "i">>, msg_id |-> <<"m", 1>>]

InitStarted ==
    /\ options \in OptionSet
    /\ bootstrap = "resolved"
    /\ bootError = NoError
    /\ agent = 1
    /\ startCount = 1
    /\ sessionId = InitialSession
    /\ calls = [c \in Calls |-> IdleCall]
    /\ \/ transcript = <<>> /\ emitted = <<>>
       \/ /\ transcript = <<userMessage(FirstSend)>>
          /\ emitted = <<Event("user_content", FirstSend.msg_id, FirstSend.content, NoIdx)>>
    /\ list = <<>>
    /\ resolved = NotResolved
    /\ config = EmptyConfig
    /\ launch = resolveLaunch(options, config)
    /\ previews = 0
    /\ stopped = FALSE
    /\ facade = [c \in Calls |-> IdleProvider]
    /\ slash = InitialSlash(TRUE, TRUE)
    /\ dialog = ClosedDialog
    /\ migrated = NotMigrated

\* Concurrent callers of the session operations on a started bridge.
NextSession ==
    \/ \E c \in ConcCalls, op \in SessionOps : Invoke(c, op, NoData)
    \/ \E c \in ConcCalls : ResumeSession(c)
    \/ \E c \in ConcCalls, n \in NewSessions \cup {NoSession} : RpcResolved(c, n)
    \/ \E c \in ConcCalls : RpcRejected(c)
    \/ \E c \in ConcCalls : Return(c)

SpecSession == InitStarted /\ [][NextSession]_vars

\* The event stream of a started bridge, with a caller sending messages.
NextStream ==
    \/ \E v \in StreamEvents : OnStreamEvent(v)
    \/ \E v \in SignalEvents : OnSignalEvent(v)
    \/ \E c \in SeqCalls, d \in FailSendData : Invoke(c, "sendMessage", d)
    \/ \E c \in SeqCalls : ResumeSend(c)
    \/ \E c \in SeqCalls : RpcResolved(c, NoSession)
    \/ \E c \in SeqCalls : SendRejected(c)
    \/ \E c \in SeqCalls : LocalFinish(c)
    \/ \E c \in SeqCalls : Return(c)

SpecStream == InitStarted /\ [][NextStream]_vars

-----------------------------------------------------------------------------
\* Properties of the API on a fresh bridge (specification Spec).

Holds(t, m) == \E i \in 1..Len(t) : t[i] = m

\* content that is a slash command: starts with "/" and is longer than "/"
IsSlashText(s) == Len(trim(s)) > 1 /\ Head(trim(s)) = "/"

\* a send the user message is persisted for
IsPlainSend(data) == data.msg_id # NoId /\ data.content # <<>> /\ ~IsSlashText(data.content)

C6_ErrorRecordedBeforeRejection ==
    [][\A c \in Calls :
          calls'[c].op = "sendMessage" =>
             /\ ( calls[c].pc # "tick" /\ calls'[c].pc = "tick" ) =>
                   /\ calls'[c].res \in BootErrors \cup {RpcError}
                   /\ \E i \in 1..Len(transcript') :
                         /\ transcript'[i].type = "tips"
                         /\ transcript'[i].content = <<calls'[c].res>>
                         /\ calls[c].data.msg_id # NoId =>
                               transcript'[i].msg_id = calls[c].data.msg_id
                   /\ emitted' # <<>>
                   /\ emitted'[Len(emitted')].type = "error"
                   /\ emitted'[Len(emitted')].data = <<calls'[c].res>>
                   /\ calls[c].data.msg_id # NoId =>
                         emitted'[Len(emitted')].msg_id = calls[c].data.msg_id
             /\ ( calls[c].pc # "done" /\ calls'[c].pc = "done" /\ calls'[c].res # "ok" ) =>
                   /\ calls[c].pc = "tick"
                   /\ calls[c].res = calls'[c].res ]_vars

C6_Witness ==
    \E c \in Calls :
        /\ calls[c].op = "sendMessage" /\ calls[c].pc = "done"
        /\ calls[c].res \in BootErrors
        /\ \E i \in 1..Len(transcript) : transcript[i].content = <<calls[c].res>>

\* C9: getEditableMessage, editMessage, regenerateMessage, deleteMessage and
\* saveFromPoint, resumed while the started agent has no session id, end with
\* the error 'No active ACP session' without having issued a request, and
\* leave the session id and the transcript unchanged; no request of these
\* operations is ever in flight without a session id.
C9_NoSessionIsPrecondition ==
    /\ [](\A c \in Calls :
            calls[c].op \in SessionOps /\ calls[c].pc = "rpc" => calls[c].sid # NoSession)
    /\ [][\A c \in Calls :
            ( /\ calls[c].op \in SessionOps
              /\ calls[c].pc = "awaitBoot" /\ calls'[c].pc # "awaitBoot"
              /\ bootstrap = "resolved" /\ sessionId = NoSession )
            => /\ calls'[c].pc = "done"
               /\ calls'[c].res = NoSessionError
               /\ calls'[c].method = "none"
               /\ sessionId' = sessionId
               /\ transcript' = transcript]_vars

C9_Witness ==
    \E c \in Calls :
        /\ calls[c].op = "deleteMessage" /\ calls[c].pc = "done"
        /\ calls[c].res = NoSessionError
        /\ bootstrap = "resolved" /\ sessionId = NoSession

C10Ops == {"sendMessage", "getEditableMessage", "editMessage", "regenerateMessage",
           "deleteMessage", "saveFromPoint", "completeCommand"}

\* C10: every operation of the mutation API first invokes the single-flight
\* start: once any of them has been called the bootstrap exists, and a request
\* is issued only after the agent was started.
C10_EveryOperationStartsAgent ==
    \A c \in Calls :
        calls[c].op \in C10Ops =>
            /\ calls[c].pc # "idle" => bootstrap # "none"
            /\ calls[c].pc = "rpc" => startCount >= 1

\* C11: completeCommand called on a started agent that has no active session
\* forwards no completion query to the agent and ends without an error.
C11_CompleteCommandIdleIsSilent ==
    \A c \in Calls :
        ( calls[c].op = "completeCommand" /\ bootstrap = "resolved" /\ agent # 0 ) =>
            /\ calls[c].pc = "rpc" => calls[c].sid # NoSession
            /\ ( calls[c].pc = "done" /\ sessionId = NoSession ) => calls[c].res = "ok"

-----------------------------------------------------------------------------
\* Properties of the bootstrap (specifications SpecBoot and SpecBootFail).

\* C1: however many initAgent calls are made on one bridge, concurrently or one
\* after another, the agent is constructed and started exactly once, and every
\* caller observes the one outcome: the one agent on success, the one error on
\* failure.
C1_SingleFlightStart ==
    /\ startCount <= 1
    /\ bootstrap \in {"starting", "resolved", "rejected"} => startCount = 1
    /\ \A c \in Calls :
          calls[c].op = "initAgent" =>
             /\ bootstrap # "none"
             /\ calls[c].pc = "done" =>
                   \/ calls[c].res = "ok" /\ bootstrap = "resolved" /\ agent = 1
                   \/ calls[c].res = bootError /\ bootstrap = "rejected"

C1_Witness ==
    /\ \A c \in Calls : calls[c].op = "initAgent" /\ calls[c].pc = "done" /\ calls[c].res = "ok"
    /\ startCount = 1

C7Ops == {"sendMessage", "editMessage", "regenerateMessage", "deleteMessage",
          "saveFromPoint", "getEditableMessage"}

\* C7: a failed bootstrap is never retried on the same bridge: once the start
\* attempt failed the bootstrap stays failed with the same error, the agent is
\* not constructed or started again, and every pending and later sendMessage,
\* editMessage, regenerateMessage, deleteMessage, saveFromPoint and
\* getEditableMessage fails with that error without issuing a request.
C7_FailedBootstrapIsFinal ==
    /\ [](bootstrap = "rejected" =>
            /\ startCount = 1
            /\ bootError \in BootErrors
            /\ \A c \in Calls :
                  calls[c].op \in C7Ops =>
                     /\ calls[c].pc # "rpc" /\ calls[c].method = "none"
                     /\ calls[c].pc \in {"tick", "done"} => calls[c].res = bootError)
    /\ [][bootstrap = "rejected" =>
            /\ bootstrap' = "rejected"
            /\ bootError' = bootError
            /\ startCount' = startCount]_vars

C7_Witness ==
    /\ bootstrap = "rejected"
    /\ \E c, d \in Calls :
          /\ calls[c].op = "sendMessage" /\ calls[c].pc = "done" /\ calls[c].res = bootError
          /\ calls[d].op = "deleteMessage" /\ calls[d].pc = "done" /\ calls[d].res = bootError

-----------------------------------------------------------------------------
\* Properties of the session operations (specification SpecSession).

\* C4: when the request of an editMessage or regenerateMessage succeeds and
\* its response carries a new session id, that id is the active session id in
\* the state in which the operation returns; every request a session
\* operation issues carries the session id active when it is issued, so a
\* call started after the return sends the adopted id; and no adoption ever
\* brings the original session id back.
C4_NewSessionAdoptedOnReturn ==
    [][ /\ \A c \in Calls :
             ( /\ calls[c].op \in AdoptOps
               /\ calls[c].pc = "rpc" /\ calls'[c].pc = "done"
               /\ calls'[c].res = "ok" /\ calls'[c].ret # NoSession )
             => sessionId' = calls'[c].ret
        /\ \A c \in Calls :
             ( /\ calls[c].op \in SessionOps
               /\ calls[c].pc = "awaitBoot" /\ calls'[c].pc = "rpc" )
             => calls'[c].sid = sessionId /\ sessionId' = sessionId
        /\ sessionId \in NewSessions => sessionId' \in NewSessions ]_vars

C4_Witness ==
    \E c, d \in Calls :
        /\ calls[c].op = "editMessage" /\ calls[c].pc = "done"
        /\ calls[c].res = "ok" /\ calls[c].ret = "s2"
        /\ calls[d].op = "deleteMessage" /\ calls[d].pc = "rpc" /\ calls[d].sid = "s2"
        /\ sessionId = "s2"

\* C8: when the request of editMessage, regenerateMessage, deleteMessage or
\* saveFromPoint fails, the call ends with the request's error, and no step of
\* a call that does not end in success changes the active session id or the
\* transcript.
C8_FailedMutationChangesNothing ==
    [][\A c \in Calls :
          ( /\ calls[c].op \in MutationOps \/ calls'[c].op \in MutationOps
            /\ calls'[c] # calls[c]
            /\ ~(calls'[c].pc = "done" /\ calls'[c].res = "ok") )
          => /\ sessionId' = sessionId
             /\ transcript' = transcript
             /\ ( calls[c].pc = "rpc" /\ calls'[c].pc = "done" ) => calls'[c].res = RpcError
       ]_vars

C8_Witness ==
    \E c \in Calls :
        /\ calls[c].op = "editMessage" /\ calls[c].pc = "done" /\ calls[c].res = RpcError
        /\ sessionId = InitialSession
        /\ transcript # <<>>

-----------------------------------------------------------------------------
\* Properties of the reconciliation (specification SpecStream).

IndexPayloads == {<<u, m>> : u \in IndexValues, m \in IndexValues}

\* C2: after any sequence of history_index_update events and message appends,
\* of two messages of the same side that both carry a history index, the one
\* later in the transcript has the strictly greater index.
C2_HistoryIndexIncreasing ==
    \A i, j \in 1..Len(transcript) :
        ( /\ i < j
          /\ transcript[i].position = transcript[j].position
          /\ transcript[i].historyIndex # NoIndex
          /\ transcript[j].historyIndex # NoIndex )
        => transcript[i].historyIndex < transcript[j].historyIndex

\* C3: reconciliation is idempotent: for every transcript and every update,
\* delivering the update a second time leaves the transcript as it was after
\* the first delivery.
C3_ReconciliationIdempotent ==
    \A p \in IndexPayloads :
        applyHistoryIndexUpdate(applyHistoryIndexUpdate(transcript, p), p)
            = applyHistoryIndexUpdate(transcript, p)

-----------------------------------------------------------------------------
\* The renderer's message list (specification SpecList).

\* the kinds of message a list holds: <<type, position, historyIndex>>
ListKinds ==
    { <<"text", "right", NoIndex>>, <<"text", "left", NoIndex>>,
      <<"text", "left", MaxIndex>>, <<"text", "center", NoIndex>>,
      <<"tool_group", "left", NoIndex>>, <<"tool_group", "left", 1>>,
      <<"tips", "center", NoIndex>> }

ListMessage(n, kind) ==
    [Message(<<"m", n>>, <<"m", n>>, kind[1], kind[2], <<>>) EXCEPT !.historyIndex = kind[3]]

\* the lists of at most MaxList messages, the message at place n having identity n
Lists ==
    UNION { { [n \in 1..len |-> ListMessage(n, kinds[n])] : kinds \in [1..len -> ListKinds] } :
            len \in 0..MaxList }

\* the messages resolveHistoryIndex is called with: those of the list, and
\* messages the list does not hold
Targets ==
    {list[n] : n \in 1..Len(list)}
        \cup {ListMessage(MaxList + 1, kind) : kind \in ListKinds}

InitList ==
    /\ options = [backend |-> "custom", customAgentId |-> FALSE, cliPath |-> NoPath]
    /\ bootstrap = "none"
    /\ bootError = NoError
    /\ agent = 0
    /\ startCount = 0
    /\ sessionId = NoSession
    /\ calls = [c \in Calls |-> IdleCall]
    /\ transcript = <<>>
    /\ emitted = <<>>
    /\ list \in Lists
    /\ resolved = NotResolved
    /\ config = EmptyConfig
    /\ launch = NoLaunch
    /\ previews = 0
    /\ stopped = FALSE
    /\ facade = [c \in Calls |-> IdleProvider]
    /\ slash = InitialSlash(TRUE, TRUE)
    /\ dialog = ClosedDialog
    /\ migrated = NotMigrated

NextList == \E message \in Targets : ResolveHistoryIndex(message)

SpecList == InitList /\ [][NextList]_vars

\* the place of a message in the list, 0 when the list does not hold it
PlaceInList(message) ==
    IF \E n \in 1..Len(list) : list[n].id = message.id
    THEN CHOOSE n \in 1..Len(list) : list[n].id = message.id
    ELSE 0

\* index-eligible: plain text of side left or right, or a tool-call group
\* with a known history index
IndexEligible(message) ==
    \/ message.type = "text" /\ message.position \in {"left", "right"}
    \/ message.type = "tool_group" /\ message.historyIndex # NoIndex

EligibleUpTo(n) == Cardinality({k \in 1..n : IndexEligible(list[k])})

\* C12: for a message of the list that is index-eligible and has no stored
\* history index, resolveHistoryIndex returns the 1-based count of
\* index-eligible messages from the start of the list up to and including the
\* message, plus the fixed offset.
C12_OrdinalIsOneBasedCountPlusOffset ==
    ( /\ resolved # NotResolved
      /\ resolved.message.historyIndex = NoIndex
      /\ IndexEligible(resolved.message)
      /\ PlaceInList(resolved.message) # 0 )
    => resolved.index = EligibleUpTo(PlaceInList(resolved.message)) + HISTORY_MESSAGE_OFFSET

\* plain text of side left or right
IsSidedText(message) == message.type = "text" /\ message.position \in {"left", "right"}

SidedTextUpTo(n) == Cardinality({k \in 1..n : IsSidedText(list[k])})

\* C12, amended: for a plain-text message of side left or right that the list
\* holds and that has no stored history index, resolveHistoryIndex returns the
\* number of plain-text left/right messages that precede it in the list (tool-call
\* groups are not counted) plus the fixed offset; with offset 1 the 2nd such
\* message resolves to 2.
C12_OrdinalIsTextMessagesBeforePlusOffset ==
    ( /\ resolved # NotResolved
      /\ resolved.message.historyIndex = NoIndex
      /\ IsSidedText(resolved.message)
      /\ PlaceInList(resolved.message) # 0 )
    => resolved.index =
          (SidedTextUpTo(PlaceInList(resolved.message)) - 1) + HISTORY_MESSAGE_OFFSET

C12_Witness ==
    /\ resolved # NotResolved
    /\ Len(list) = 3
    /\ IsSidedText(list[1])
    /\ list[2].type = "tool_group" /\ list[2].historyIndex # NoIndex
    /\ resolved.message = list[3]
    /\ IsSidedText(list[3]) /\ list[3].historyIndex = NoIndex
    /\ resolved.index = 2

\* C13: resolveHistoryIndex returns the stored history index of a message
\* that has one, wherever the message stands in the list, and returns null
\* for a message without a stored index that is not index-eligible or that
\* the list does not hold.
C13_StoredIndexElseNull ==
    resolved # NotResolved =>
        /\ resolved.message.historyIndex # NoIndex =>
              resolved.index = resolved.message.historyIndex
        /\ ( /\ resolved.message.historyIndex = NoIndex
             /\ \/ ~IndexEligible(resolved.message)
                \/ PlaceInList(resolved.message) = 0 )
           => resolved.index = Null

C13_Witness ==
    /\ resolved # NotResolved
    /\ resolved.message.type = "text"
    /\ resolved.message.historyIndex = MaxIndex
    /\ PlaceInList(resolved.message) = 1
    /\ resolved.index = MaxIndex
    /\ \E n \in 1..Len(list) : list[n].type = "tool_group" /\ list[n].historyIndex = NoIndex

-----------------------------------------------------------------------------
\* The reconciliation on the transcripts of a started bridge (specification
\* SpecIndex).

\* the messages a transcript holds: <<identity, type, position, historyIndex>>;
\* user messages, agent messages and error notices, indexed or not
TranscriptKinds ==
    { <<"m", "text", "right", NoIndex>>, <<"m", "text", "right", 1>>,
      <<"a", "text", "left", NoIndex>>, <<"a", "text", "left", 1>>,
      <<"a", "tool_group", "left", NoIndex>>, <<"u", "tips", "center", NoIndex>> }

TranscriptMessage(n, kind) ==
    [Message(<<kind[1], n>>, <<kind[1], n>>, kind[2], kind[3], <<"o", "k">>)
        EXCEPT !.historyIndex = kind[4]]

Transcripts ==
    UNION { { [n \in 1..len |-> TranscriptMessage(n, kinds[n])] :
                kinds \in [1..len -> TranscriptKinds] } : len \in 0..MaxMsgs }

\* the events of the reconciliation: updates with either index, both or none,
\* and content events
IndexEvents ==
    { v \in StreamEvents :
        \/ v.type = "content"
        \/ v.type = "history_index_update" /\ v.idx \in {NoIndex, MaxIndex} \X {NoIndex, MaxIndex} }

InitIndex ==
    /\ options = [backend |-> "custom", customAgentId |-> FALSE, cliPath |-> NoPath]
    /\ bootstrap = "resolved"
    /\ bootError = NoError
    /\ agent = 1
    /\ startCount = 1
    /\ sessionId = InitialSession
    /\ calls = [c \in Calls |-> IdleCall]
    /\ transcript \in Transcripts
    /\ emitted = <<>>
    /\ list = <<>>
    /\ resolved = NotResolved
    /\ config = EmptyConfig
    /\ launch = resolveLaunch(options, config)
    /\ previews = 0
    /\ stopped = FALSE
    /\ facade = [c \in Calls |-> IdleProvider]
    /\ slash = InitialSlash(TRUE, TRUE)
    /\ dialog = ClosedDialog
    /\ migrated = NotMigrated

NextIndex == \E v \in IndexEvents : OnStreamEvent(v)

SpecIndex == InitIndex /\ [][NextIndex]_vars

\* the places of the plain-text messages of a side that have no history index
Unindexed(t, side) ==
    {i \in 1..Len(t) : t[i].type = "text" /\ t[i].position = side /\ t[i].historyIndex = NoIndex}

MostRecent(S) == CHOOSE i \in S : \A k \in S : k <= i

\* C14: a history_index_update carrying only lastUserIndex = U, when the
\* transcript has an unindexed right-side plain-text message, assigns U to
\* exactly one message, the last such message in transcript order, and leaves
\* every other message unchanged.
C14_UserIndexGoesToMostRecent ==
    [][\A v \in IndexEvents :
          ( /\ v.type = "history_index_update"
            /\ v.idx[1] # NoIndex /\ v.idx[2] = NoIndex
            /\ Unindexed(transcript, "right") # {}
            /\ OnStreamEvent(v) )
          => /\ Len(transcript') = Len(transcript)
             /\ \A i \in 1..Len(transcript) :
                   transcript'[i] =
                      IF i = MostRecent(Unindexed(transcript, "right"))
                      THEN [transcript[i] EXCEPT !.historyIndex = v.idx[1]]
                      ELSE transcript[i] ]_vars

C14_Witness ==
    /\ Len(transcript) = 2
    /\ transcript[1].position = "right" /\ transcript[1].type = "text"
    /\ transcript[1].historyIndex = NoIndex
    /\ transcript[2].position = "right" /\ transcript[2].type = "text"
    /\ transcript[2].historyIndex = MaxIndex
    /\ emitted # <<>>
    /\ emitted[Len(emitted)].type = "history_index_update"
    /\ emitted[Len(emitted)].idx = <<MaxIndex, NoIndex>>

\* C15: a history_index_update carrying both indices assigns lastUserIndex to
\* the most recent unindexed right-side text message and lastModelIndex to the
\* most recent unindexed left-side text message, each whether or not the
\* other side has a match, and changes nothing else.
C15_BothScansIndependent ==
    [][\A v \in IndexEvents :
          ( /\ v.type = "history_index_update"
            /\ v.idx[1] # NoIndex /\ v.idx[2] # NoIndex
            /\ OnStreamEvent(v) )
          => /\ Len(transcript') = Len(transcript)
             /\ \A i \in 1..Len(transcript) :
                   transcript'[i] =
                      IF /\ Unindexed(transcript, "right") # {}
                         /\ i = MostRecent(Unindexed(transcript, "right"))
                      THEN [transcript[i] EXCEPT !.historyIndex = v.idx[1]]
                      ELSE IF /\ Unindexed(transcript, "left") # {}
                              /\ i = MostRecent(Unindexed(transcript, "left"))
                      THEN [transcript[i] EXCEPT !.historyIndex = v.idx[2]]
                      ELSE transcript[i] ]_vars

C15_Witness ==
    /\ Len(transcript) = 2
    /\ transcript[1].position = "left" /\ transcript[1].historyIndex = MaxIndex
    /\ transcript[2].position = "right" /\ transcript[2].historyIndex = MaxIndex
    /\ emitted # <<>>
    /\ emitted[Len(emitted)].type = "history_index_update"
    /\ emitted[Len(emitted)].idx = <<MaxIndex, MaxIndex>>

\* C16: a history_index_update whose side has no unindexed plain-text message
\* leaves the transcript unchanged and is republished like any other update;
\* it is not kept for later: a message appended afterwards has no history index.
C16_UnmatchedUpdateIsDropped ==
    [][/\ \A v \in IndexEvents :
            ( /\ v.type = "history_index_update"
              /\ v.idx[1] # NoIndex => Unindexed(transcript, "right") = {}
              /\ v.idx[2] # NoIndex => Unindexed(transcript, "left") = {}
              /\ OnStreamEvent(v) )
            => /\ transcript' = transcript
               /\ emitted'[Len(emitted')] = v
       /\ Len(transcript') = Len(transcript) + 1 =>
             /\ SubSeq(transcript', 1, Len(transcript)) = transcript
             /\ transcript'[Len(transcript')].historyIndex = NoIndex ]_vars

C16_Witness ==
    /\ Len(emitted) = 2
    /\ emitted[1].type = "history_index_update" /\ emitted[1].idx = <<MaxIndex, NoIndex>>
    /\ emitted[2].type = "content"
    /\ Len(transcript) = 1
    /\ transcript[1].position = "left" /\ transcript[1].historyIndex = NoIndex
    /\ transcript[1].id = emitted[2].msg_id

-----------------------------------------------------------------------------
\* Properties of the event stream (specifications SpecStream and SpecEvents).

\* C17: once a message has a history index, no step of the bridge changes or
\* removes the index while the message is in the transcript.
C17_HistoryIndexImmutable ==
    [][\A i \in 1..Len(transcript) :
          transcript[i].historyIndex # NoIndex =>
             \A j \in 1..Len(transcript') :
                transcript'[j].id = transcript[i].id =>
                   transcript'[j].historyIndex = transcript[i].historyIndex ]_vars

\* one event of each kind the agent delivers
EventKinds ==
    { v \in StreamEvents :
        v.type = "history_index_update" => v.idx = <<NoIndex, MaxIndex>> }

\* The agent's events arriving at a started bridge, content and signal interleaved.
NextEvents ==
    \/ \E v \in EventKinds : OnStreamEvent(v)
    \/ \E v \in SignalEvents : OnSignalEvent(v)

SpecEvents == InitStarted /\ [][NextEvents]_vars

\* v was republished once, after the events republished before it, which keep
\* their order (of the events republished, the most recent MaxEmit are kept)
RepublishedLast(v) ==
    /\ emitted' # <<>>
    /\ emitted'[Len(emitted')] = v
    /\ Len(emitted') = IF Len(emitted) < MaxEmit THEN Len(emitted) + 1 ELSE MaxEmit
    /\ \A k \in 1..(Len(emitted') - 1) :
          emitted'[k] = emitted[Len(emitted) - (Len(emitted') - 1) + k]

\* C18: every content event that is not absorbed as a preview-navigation notice
\* and every signal event is republished exactly once, in the step in which it
\* arrives and after all events republished before; an absorbed notice is not
\* republished.
C18_RepublishedInArrivalOrder ==
    [][/\ \A v \in EventKinds :
            OnStreamEvent(v) =>
               IF v.type = "preview_open" THEN emitted' = emitted ELSE RepublishedLast(v)
       /\ \A v \in SignalEvents : OnSignalEvent(v) => RepublishedLast(v) ]_vars

C18_Witness ==
    /\ Len(emitted) = 2
    /\ emitted[1].type = "clear_history"
    /\ emitted[2].type = "acp_status"
    /\ transcript = <<>>

-----------------------------------------------------------------------------
\* Properties of sendMessage (specification SpecSend).

\* contents with white space around the text
SendTexts == Contents \cup { <<" ", "/", "h">>, <<"/", " ">> }

TextSendData == [content : SendTexts, msg_id : {NoId, FreshMsgId}]

\* Callers of sendMessage on a fresh bridge.
NextSend ==
    \/ \E c \in SeqCalls, d \in TextSendData : Invoke(c, "sendMessage", d)
    \/ ConfigLoaded
    \/ \E s \in {NoSession, InitialSession} : StartResolved(s)
    \/ \E e \in BootErrors : StartRejected(e)
    \/ \E c \in SeqCalls : ResumeSend(c)
    \/ \E c \in SeqCalls : RpcResolved(c, NoSession)
    \/ \E c \in SeqCalls : SendRejected(c)
    \/ \E c \in SeqCalls : LocalFinish(c)
    \/ \E c \in SeqCalls : Return(c)

SpecSend == Init /\ [][NextSend]_vars

\* C19: no step of a sendMessage whose content is a slash command adds a
\* right-side message to the transcript or emits a user_content event, whether
\* the dispatch succeeds or fails.
C19_SlashCommandNotPersisted ==
    [][\A c \in Calls :
          ( /\ calls'[c].op = "sendMessage"
            /\ IsSlashText(calls'[c].data.content)
            /\ calls'[c] # calls[c] )
          => /\ \A i \in 1..Len(transcript') :
                   transcript'[i].position = "right" => Holds(transcript, transcript'[i])
             /\ emitted' # emitted => emitted'[Len(emitted')].type # "user_content" ]_vars

C19_Witness ==
    \E c \in Calls :
        /\ calls[c].op = "sendMessage" /\ calls[c].data.content = <<" ", "/", "h">>
        /\ calls[c].data.msg_id # NoId
        /\ calls[c].pc = "done" /\ calls[c].res = RpcError
        /\ Len(transcript) = 1 /\ transcript[1].type = "tips"
        /\ Len(emitted) = 1 /\ emitted[1].type = "error"

-----------------------------------------------------------------------------
\* Classification of the content events (specifications SpecEvents, SpecIndex).

\* C21: a clear_history content event empties the transcript and is republished
\* with the transcript already empty; it is not mapped to a message and
\* nothing is upserted.
C21_ClearHistoryEmptiesThenRepublishes ==
    [][\A v \in EventKinds :
          OnStreamEvent(v) /\ v.type = "clear_history" =>
             /\ transcript' = <<>>
             /\ RepublishedLast(v) ]_vars

C21_Witness ==
    /\ Len(emitted) = 2
    /\ emitted[1].type = "content"
    /\ emitted[2].type = "clear_history"
    /\ transcript = <<>>

\* the transcript t after idx was given to the last unindexed plain-text
\* message of the side, when idx is a number and there is such a message
IndexedAt(t, side, idx) ==
    IF idx = NoIndex \/ Unindexed(t, side) = {}
    THEN t
    ELSE [t EXCEPT ![MostRecent(Unindexed(t, side))].historyIndex = idx]

Reconciled(t, payload) == IndexedAt(IndexedAt(t, "right", payload[1]), "left", payload[2])

\* C22: a history_index_update content event is republished with its
\* reconciliation already applied to the transcript; the event itself adds no
\* message to the transcript and replaces none.
C22_ReconciledThenRepublished ==
    [][\A v \in IndexEvents :
          OnStreamEvent(v) /\ v.type = "history_index_update" =>
             /\ transcript' = Reconciled(transcript, v.idx)
             /\ Len(transcript') = Len(transcript)
             /\ \A i \in 1..Len(transcript) : transcript'[i].id = transcript[i].id
             /\ RepublishedLast(v) ]_vars

C22_Witness ==
    /\ Len(transcript) = 2
    /\ transcript[1].type = "tool_group" /\ transcript[1].historyIndex = NoIndex
    /\ transcript[2].type = "text" /\ transcript[2].position = "left"
    /\ transcript[2].historyIndex = MaxIndex
    /\ Len(emitted) = 1
    /\ emitted[1].type = "history_index_update"
    /\ emitted[1].idx = <<NoIndex, MaxIndex>>

\* C23: a thought content event and every signal event is republished and
\* leaves the transcript as it was.
C23_ThoughtAndSignalNeverPersisted ==
    [][/\ \A v \in EventKinds :
            OnStreamEvent(v) /\ v.type = "thought" =>
               transcript' = transcript /\ RepublishedLast(v)
       /\ \A v \in SignalEvents :
            OnSignalEvent(v) => transcript' = transcript /\ RepublishedLast(v) ]_vars

C23_Witness ==
    /\ Len(emitted) = 2
    /\ emitted[1].type = "thought"
    /\ emitted[2].type = "acp_status"
    /\ Len(transcript) = 1

\* C24: a content event recognised as a preview-navigation notice is handled
\* by the preview handler alone: nothing is republished and the transcript is
\* unchanged.
C24_PreviewNoticeAbsorbed ==
    [][\A v \in EventKinds :
          OnStreamEvent(v) /\ handlePreviewOpenEvent(v) =>
             /\ emitted' = emitted
             /\ transcript' = transcript
             /\ previews' = previews + 1 ]_vars

C24_Witness ==
    /\ previews = 1
    /\ Len(emitted) = 1 /\ emitted[1].type = "content"
    /\ Len(transcript) = 1

\* t2 is t1 with m upserted by identity
UpsertedByIdentity(t1, t2, m) ==
    IF \E i \in 1..Len(t1) : t1[i].id = m.id
    THEN /\ Len(t2) = Len(t1)
         /\ \A i \in 1..Len(t1) : t2[i] = IF t1[i].id = m.id THEN m ELSE t1[i]
    ELSE t2 = Append(t1, m)

\* the content events of the default path
IsDefaultPath(v) ==
    v.type \notin {"preview_open", "clear_history", "history_index_update", "thought"}

\* C25: a content event of the default path is republished with its message,
\* if the mapping yields one, already upserted by identity (appended when the
\* identity is new, replacing the entry of that identity otherwise), so that no
\* two entries of the transcript share an identity; when the mapping yields no
\* message the transcript is unchanged and the event is republished all the same.
C25_UpsertByIdentityThenRepublished ==
    [][\A v \in EventKinds :
          OnStreamEvent(v) /\ IsDefaultPath(v) =>
             /\ IF transformMessage(v) # NoMessage
                THEN UpsertedByIdentity(transcript, transcript', transformMessage(v))
                ELSE transcript' = transcript
             /\ \A i, j \in 1..Len(transcript') :
                   transcript'[i].id = transcript'[j].id => i = j
             /\ RepublishedLast(v) ]_vars

C25_Witness ==
    /\ Len(emitted) = 2
    /\ emitted[1].type = "content" /\ emitted[2].type = "content"
    /\ emitted[1].msg_id = emitted[2].msg_id
    /\ Len(transcript) = 1
    /\ transcript[1].id = emitted[2].msg_id

-----------------------------------------------------------------------------
\* Session operations that only forward (specification SpecSession).

ForwardOps == {"deleteMessage", "saveFromPoint"}

\* C26: no step of a deleteMessage or saveFromPoint call, whether the call
\* ends in success or in failure and whatever the agent's answer carries,
\* changes the active session id or the transcript; the one request
\* deleteMessage issues is the remote deletion.
C26_DeleteAndSaveChangeNothing ==
    [][\A c \in Calls :
          ( /\ calls[c].op \in ForwardOps \/ calls'[c].op \in ForwardOps
            /\ calls'[c] # calls[c] )
          => /\ sessionId' = sessionId
             /\ transcript' = transcript
             /\ ( calls'[c].pc = "rpc" /\ calls'[c].op = "deleteMessage" )
                   => calls'[c].method = "session/deleteMessage" ]_vars

C26_Witness ==
    \E c, d \in Calls :
        /\ calls[c].op = "deleteMessage" /\ calls[c].pc = "done" /\ calls[c].res = "ok"
        /\ calls[d].op = "saveFromPoint" /\ calls[d].pc = "done" /\ calls[d].res = "ok"
        /\ calls[d].ret = "s2"
        /\ sessionId = InitialSession
        /\ transcript # <<>>

\* a call holds the result of an edit or a regenerate that carries a new session id
HoldsNewSession(c) ==
    /\ calls[c].op \in AdoptOps
    /\ calls[c].pc = "done" /\ calls[c].res = "ok"
    /\ calls[c].ret # NoSession

\* C27: the step in which the result of an edit or regenerate request carrying
\* a new session id reaches the bridge is the step that stores that id as the
\* active session id, and the stored id changes in no other step; so in no
\* state does a call hold such a result while the original session id is still
\* the active one, however the concurrent calls interleave.
C27_AdoptionIsAtomicWithReceipt ==
    /\ [][/\ \A c \in Calls :
               ~HoldsNewSession(c) /\ HoldsNewSession(c)' => sessionId' = calls'[c].ret
          /\ sessionId' # sessionId =>
               \E c \in Calls :
                  /\ calls[c].pc = "rpc" /\ HoldsNewSession(c)'
                  /\ sessionId' = calls'[c].ret ]_vars
    /\ []((\E c \in Calls : HoldsNewSession(c)) => sessionId \in NewSessions)

C27_Witness ==
    \E c, d \in Calls :
        /\ calls[c].op = "regenerateMessage" /\ HoldsNewSession(c) /\ calls[c].ret = "s3"
        /\ calls[d].op = "editMessage" /\ calls[d].pc = "rpc" /\ calls[d].sid = InitialSession
        /\ sessionId = "s3"

-----------------------------------------------------------------------------
\* Stopping the conversation (specification SpecStop).

\* Concurrent callers of the session operations on a started bridge that is
\* stopped at some moment.
NextStop ==
    \/ \E c \in ConcCalls, op \in SessionOps : Invoke(c, op, NoData)
    \/ \E c \in ConcCalls : ResumeSession(c)
    \/ \E c \in ConcCalls, n \in NewSessions \cup {NoSession} : RpcResolved(c, n)
    \/ \E c \in ConcCalls : RpcRejected(c)
    \/ \E c \in ConcCalls : Return(c)
    \/ Stop

SpecStop == InitStarted /\ [][NextStop]_vars

ConversationStopped == "conversation stopped"

\* C28: the step that stops the conversation invalidates the bootstrap handle
\* and ends every request in flight at that moment with the 'conversation
\* stopped' failure, so that no call stays pending on it.
C28_StopInvalidatesAndFailsInFlight ==
    [][~stopped /\ stopped' =>
          /\ bootstrap' = "none"
          /\ \A c \in Calls :
                calls[c].pc = "rpc" =>
                   calls'[c].pc = "done" /\ calls'[c].res = ConversationStopped ]_vars

-----------------------------------------------------------------------------
\* Launch parameters (specification SpecLaunch).

\* data.cliPath: absent or an explicit path
LaunchOptions == [backend : Backends, customAgentId : BOOLEAN, cliPath : {NoPath, <<"x">>}]

\* defaultCliPath of a custom agent: absent, a command, a command with
\* arguments, the same with white space around and between, white space only
CommandStrings ==
    { NoPath, <<"g">>, <<"g", " ", "a">>,
      <<" ", "g", " ", " ", "a", " ", "b", " ">>, <<" ">> }

\* acpArgs: absent, an empty list, a list of one argument
ArgLists == { NoArgs, Args(<<>>), Args(<< <<"z">> >>) }

\* what ProcessConfig holds: the custom agent found by data.customAgentId, if
\* any, and the entry of the built-in backend
Configs ==
    [customAgent : {NoCustomAgent}
                      \cup [found : {TRUE}, defaultCliPath : CommandStrings, acpArgs : ArgLists],
     backend : [cliPath : {NoPath, <<"c">>}, acpArgs : {NoArgs, Args(<< <<"a", "c", "p">> >>)}]]

InitLaunch ==
    /\ options \in LaunchOptions
    /\ config \in Configs
    /\ bootstrap = "none"
    /\ bootError = NoError
    /\ agent = 0
    /\ startCount = 0
    /\ sessionId = NoSession
    /\ calls = [c \in Calls |-> IdleCall]
    /\ transcript = <<>>
    /\ emitted = <<>>
    /\ list = <<>>
    /\ resolved = NotResolved
    /\ launch = NoLaunch
    /\ previews = 0
    /\ stopped = FALSE
    /\ facade = [c \in Calls |-> IdleProvider]
    /\ slash = InitialSlash(TRUE, TRUE)
    /\ dialog = ClosedDialog
    /\ migrated = NotMigrated

\* initAgent on a fresh bridge, for every construction data and configuration
NextLaunch ==
    \/ \E c \in SeqCalls : Invoke(c, "initAgent", NoData)
    \/ ConfigLoaded
    \/ \E s \in {NoSession, InitialSession} : StartResolved(s)
    \/ \E e \in BootErrors : StartRejected(e)
    \/ \E c \in SeqCalls : ResumeInit(c)
    \/ \E c \in SeqCalls : Return(c)

SpecLaunch == InitLaunch /\ [][NextLaunch]_vars

\* the words of a string: its maximal runs of characters other than white space
RECURSIVE WordEnd(_, _)
WordEnd(s, i) == IF i < Len(s) /\ s[i + 1] # " " THEN WordEnd(s, i + 1) ELSE i

RECURSIVE WordsFrom(_, _)
WordsFrom(s, i) ==
    IF i > Len(s) THEN <<>>
    ELSE IF s[i] = " " THEN WordsFrom(s, i + 1)
    ELSE <<SubSeq(s, i, WordEnd(s, i))>> \o WordsFrom(s, WordEnd(s, i) + 1)

Words(s) == WordsFrom(s, 1)

\* the custom agent the construction data names is configured
HasCustomAgent == options.backend = "custom" /\ options.customAgentId /\ config.customAgent.found

\* the path configured for the backend of the construction data
ConfiguredPath ==
    IF options.backend # "custom" THEN config.backend.cliPath
    ELSE IF HasCustomAgent /\ Words(config.customAgent.defaultCliPath) # <<>>
    THEN Words(config.customAgent.defaultCliPath)[1]
    ELSE NoPath

\* C29: the launch path the agent is constructed with is the explicit
\* override when one is given, otherwise the path configured for the backend
\* when there is one, otherwise none (the agent's built-in default), for every
\* backend, the custom-agent backend included.
C29_ExplicitOverrideWins ==
    agent # 0 =>
       launch.cliPath = IF options.cliPath # NoPath THEN options.cliPath ELSE ConfiguredPath

\* C30: for a custom-agent backend whose configured command string has a
\* command, the launch command is the first word of the string and the
\* arguments are the configured argument list when one is configured,
\* otherwise the remaining words of the string, otherwise none.
C30_CustomCommandStringParsed ==
    ( agent # 0 /\ HasCustomAgent /\ Words(config.customAgent.defaultCliPath) # <<>> ) =>
       LET words == Words(config.customAgent.defaultCliPath)
           acpArgs == config.customAgent.acpArgs
       IN  /\ launch.cliPath = words[1]
           /\ launch.customArgs = IF acpArgs.given THEN acpArgs
                                  ELSE IF Len(words) > 1 THEN Args(Tail(words))
                                  ELSE NoArgs

C30_Witness ==
    /\ agent # 0 /\ HasCustomAgent
    /\ config.customAgent.defaultCliPath = <<" ", "g", " ", " ", "a", " ", "b", " ">>
    /\ ~config.customAgent.acpArgs.given
    /\ launch = [cliPath |-> <<"g">>, customArgs |-> Args(<< <<"a">>, <<"b">> >>)]

-----------------------------------------------------------------------------
\* Concurrent edit and regenerate (specification SpecSession).

EditOps == {"editMessage", "regenerateMessage"}

\* C32: no lock orders the mutation calls: an edit or regenerate call that has
\* passed the bootstrap can always pass its session check and send its
\* request, whatever other requests are in flight, and the request carries the
\* session id active at that moment; each successful answer that carries a new
\* session id makes it the active one when it is processed, so after two
\* concurrent calls the active id is that of the answer processed last.
C32_NoLockLastResponseWins ==
    /\ []( \A c \in Calls :
              calls[c].op \in EditOps /\ calls[c].pc = "awaitBoot" =>
                 ENABLED ResumeSession(c) )
    /\ [][\A c \in Calls :
             calls[c].op \in EditOps =>
                /\ ( calls[c].pc = "awaitBoot" /\ calls'[c].pc = "rpc" )
                      => calls'[c].sid = sessionId
                /\ ( calls[c].pc = "rpc" /\ calls'[c].pc = "done" /\ calls'[c].res = "ok" )
                      => sessionId' = IF calls'[c].ret # NoSession
                                      THEN calls'[c].ret ELSE sessionId ]_vars

C32_Witness ==
    /\ calls[1].op = "editMessage" /\ calls[1].pc = "done" /\ calls[1].ret = "s2"
    /\ calls[2].op = "regenerateMessage" /\ calls[2].pc = "done" /\ calls[2].ret = "s3"
    /\ sessionId = "s2"

-----------------------------------------------------------------------------
\* The user message of sendMessage (specification SpecSend).

-----------------------------------------------------------------------------
\* The active session id (specification SpecAdopt).

\* the operations the adoption is told apart from
AdoptSpecOps == {"editMessage", "regenerateMessage", "deleteMessage", "saveFromPoint",
                 "completeCommand"}

\* the content events of the agent's answer
AdoptEvents == { v \in EventKinds : v.type = "content" }

\* The operations, content events and signal events on a started bridge.
NextAdopt ==
    \/ \E c \in SeqCalls, op \in AdoptSpecOps : Invoke(c, op, NoData)
    \/ \E c \in SeqCalls : Invoke(c, "sendMessage", [content |-> <<"h", "i">>, msg_id |-> NoId])
    \/ \E c \in SeqCalls : ResumeSend(c)
    \/ \E c \in SeqCalls : ResumeSession(c)
    \/ \E c \in SeqCalls : ResumeBootstrapOp(c)
    \/ \E c \in SeqCalls, n \in NewSessions \cup {NoSession} : RpcResolved(c, n)
    \/ \E c \in SeqCalls : RpcRejected(c)
    \/ \E c \in SeqCalls : Return(c)
    \/ \E v \in AdoptEvents : OnStreamEvent(v)
    \/ \E v \in SignalEvents : OnSignalEvent(v)

SpecAdopt == InitStarted /\ [][NextAdopt]_vars

\* C34: the active session id changes only in the step that processes the
\* successful answer of an editMessage or regenerateMessage request carrying a
\* new session id, and then to that id; every other step (sendMessage,
\* deleteMessage, saveFromPoint, completeCommand, content and signal events,
\* failed requests) leaves it as it is, and the bridge holds one active
\* session id at all times.
C34_OnlyEditAndRegenerateAdopt ==
    /\ [][sessionId' # sessionId =>
             \E c \in Calls :
                /\ calls[c].op \in {"editMessage", "regenerateMessage"}
                /\ calls[c].pc = "rpc" /\ calls'[c].pc = "done" /\ calls'[c].res = "ok"
                /\ calls'[c].ret = sessionId'
                /\ sessionId' \in NewSessions ]_vars
    /\ [](sessionId \in {InitialSession} \cup NewSessions)

C34_Witness ==
    \E c \in Calls :
        /\ calls[c].op = "saveFromPoint" /\ calls[c].pc = "done" /\ calls[c].res = "ok"
        /\ calls[c].ret = "s3"
        /\ sessionId = "s2"
        /\ emitted # <<>> /\ emitted[Len(emitted)].type = "content"

-----------------------------------------------------------------------------
\* Migrations (specification SpecMigrate).

NextMigrate ==
    \/ \E f \in VersionInputs, t \in VersionInputs : GetMigrationsToRun(f, t)
    \/ \E f \in VersionInputs, t \in VersionInputs : GetMigrationsToRollback(f, t)
    \/ \E f \in VersionInputs, t \in VersionInputs, failAt \in {0, 2, 8} : RunMigrations(f, t, failAt)

SpecMigrate == Init /\ [][NextMigrate]_vars

Versions == {ALL_MIGRATIONS[i] : i \in 1..Len(ALL_MIGRATIONS)}

Elements(s) == {s[i] : i \in 1..Len(s)}

\* C40: getMigrationsToRun(from, to) returns exactly the migrations with
\* from < version <= to, in ascending order of version;
\* getMigrationsToRollback(from, to) returns exactly those with
\* to < version <= from, in descending order; runMigrations with from > to
\* throws and runs no migration, and with from = to runs none and returns.
C40_MigrationSelectionAndOrder ==
    /\ migrated.op = "getMigrationsToRun" =>
          /\ Elements(migrated.result) =
                {v \in Versions : migrated.from < v /\ v <= migrated.to}
          /\ \A i, j \in 1..Len(migrated.result) :
                i < j => migrated.result[i] < migrated.result[j]
    /\ migrated.op = "getMigrationsToRollback" =>
          /\ Elements(migrated.result) =
                {v \in Versions : migrated.to < v /\ v <= migrated.from}
          /\ \A i, j \in 1..Len(migrated.result) :
                i < j => migrated.result[i] > migrated.result[j]
    /\ migrated.op = "runMigrations" =>
          /\ migrated.from > migrated.to => migrated.threw /\ migrated.ran = <<>>
          /\ migrated.from = migrated.to => ~migrated.threw /\ migrated.ran = <<>>
          /\ migrated.ran = <<>> => migrated.committed = <<>>

C40_Witness ==
    /\ migrated.op = "getMigrationsToRun"
    /\ migrated.from = 2 /\ migrated.to = 5
    /\ migrated.result = <<3, 4, 5>>

-----------------------------------------------------------------------------
\* Facade (specification SpecFacade): the providers over a bridge that is
\* never started, starting, started or failed to start.

NextFacade ==
    \/ \E c \in SeqCalls, target \in ProviderTargets, partial \in Partials :
          ProviderCall(c, "completeCommand", target, partial)
    \/ \E c \in SeqCalls, target \in ProviderTargets :
          ProviderCall(c, "confirmMessage", target, <<>>)
    \/ \E c \in SeqCalls : ProviderReturn(c)
    \/ \E c \in SeqCalls : ProviderDone(c)
    \/ \E c \in SeqCalls : Invoke(c, "initAgent", NoData)
    \/ ConfigLoaded
    \/ \E s \in {NoSession, InitialSession} : StartResolved(s)
    \/ \E e \in BootErrors : StartRejected(e)
    \/ \E c \in SeqCalls : ResumeInit(c)
    \/ \E c \in SeqCalls : ResumeBootstrapOp(c)
    \/ \E c \in SeqCalls : RpcResolved(c, NoSession)
    \/ \E c \in SeqCalls : RpcRejected(c)
    \/ \E c \in SeqCalls : facade[c].pc = "idle" /\ Return(c)

SpecFacade == Init /\ [][NextFacade]_vars

\* the result object a provider returned: a failure with a message for an
\* unknown conversation and for a task that is not an ACP one, a success
\* without a message otherwise, with data where withData says so
ReturnedResult(p, withData) ==
    /\ p.result.success => p.result.msg = "none" /\ p.result.hasData = withData
    /\ ~p.result.success => p.result.msg # "none" /\ ~p.result.hasData
    /\ p.method = "confirmMessage" /\ p.target \in {NoTarget, "unknown"} => ~p.result.success
    /\ p.method = "completeCommand" /\ p.target = "unknown" => ~p.result.success
    /\ p.target = "gemini" => ~p.result.success

\* the provider returns once the call of the bridge settled: a success exactly
\* when the bridge returned, and a failure with the error when it threw
BridgeOutcomeReturned ==
    \A c \in Calls :
        facade[c].pc = "await" /\ facade'[c].pc # "await" =>
            /\ facade'[c].pc = "done"
            /\ facade'[c].result.success <=> calls[c].res = "ok"
            /\ calls[c].res # "ok" => facade'[c].result.msg = calls[c].res

\* C31 as stated: the providers never throw to the RPC caller; they return
\* success = false with a message for an unknown conversation, a non-ACP task
\* and any error thrown by the bridge, and success = true with data otherwise.
C31_NeverThrowsSuccessWithData ==
    /\ [](\A c \in Calls :
            /\ facade[c].pc # "threw"
            /\ facade[c].pc = "done" => ReturnedResult(facade[c], TRUE))
    /\ [][BridgeOutcomeReturned]_vars

\* C31 amended: the providers never throw to the RPC caller; they return
\* success = false with a message for an unknown conversation, a non-ACP task
\* and any error thrown by the bridge, and success = true otherwise, with the
\* suggestions as data from completeCommand and without data from
\* confirmMessage.
C31_NeverThrowsToCaller ==
    /\ [](\A c \in Calls :
            /\ facade[c].pc # "threw"
            /\ facade[c].pc = "done" =>
                  ReturnedResult(facade[c], facade[c].method = "completeCommand"))
    /\ [][BridgeOutcomeReturned]_vars

\* completeCommand of a bridge that was never started threw inside the
\* provider, and the provider returned the failure
C31_Witness ==
    \E c \in Calls :
        /\ facade[c].pc = "done"
        /\ facade[c].method = "completeCommand"
        /\ facade[c].target = "acp"
        /\ facade[c].result = Failure(TypeError)

\* two characters equal up to the case of a letter
SameLetter(a, b) ==
    \/ a = b
    \/ \E k \in 1..Len(UpperCase) : {a, b} = {UpperCase[k], LowerCase[k]}

StartsWithIgnoringCase(name, partial) ==
    /\ Len(partial) <= Len(name)
    /\ \A i \in 1..Len(partial) : SameLetter(name[i], partial[i])

\* C39: completeCommand of a request without sessionId calls neither the
\* bridge nor the agent and returns success with exactly those of the six
\* static commands whose name starts with the partial, compared
\* case-insensitively.
C39_StaticCompletionsWithoutSession ==
    [][\A c \in Calls, partial \in Partials :
          /\ facade[c].pc = "idle" /\ facade'[c].pc # "idle"
          /\ facade'[c].method = "completeCommand"
          /\ facade'[c].target = NoTarget
          /\ facade'[c].partial = partial
          =>  /\ UNCHANGED bridgeVars
              /\ facade'[c].pc = "done"
              /\ facade'[c].result.success
              /\ facade'[c].result.hasData
              /\ Len(staticCommands) = 6
              /\ LET wanted(name) == StartsWithIgnoringCase(name, partial)
                 IN  facade'[c].result.data = SelectSeq(staticCommands, wanted)]_vars

C39_Witness ==
    \E c \in Calls :
        /\ facade[c].pc = "done"
        /\ facade[c].method = "completeCommand"
        /\ facade[c].target = NoTarget
        /\ facade[c].partial = <<"/", "C", "H">>
        /\ facade[c].result = Success(TRUE, SubSeq(staticCommands, 3, 6))
        /\ calls[c] = IdleCall

-----------------------------------------------------------------------------
\* Slash-command autocomplete (specification SpecSlash).

\* the hook mounted for a flux or another backend, with or without a
\* fetchCompletions option; nothing else has run
InitSlash ==
    /\ options = [backend |-> "custom", customAgentId |-> FALSE, cliPath |-> NoPath]
    /\ bootstrap = "none"
    /\ bootError = NoError
    /\ agent = 0
    /\ startCount = 0
    /\ sessionId = NoSession
    /\ calls = [c \in Calls |-> IdleCall]
    /\ transcript = <<>>
    /\ emitted = <<>>
    /\ list = <<>>
    /\ resolved = NotResolved
    /\ config = EmptyConfig
    /\ launch = NoLaunch
    /\ previews = 0
    /\ stopped = FALSE
    /\ facade = [c \in Calls |-> IdleProvider]
    /\ \E isFlux \in BOOLEAN, hasFetch \in BOOLEAN : slash = InitialSlash(isFlux, hasFetch)
    /\ dialog = ClosedDialog
    /\ migrated = NotMigrated

\* an input longer than MaxInputLength
LongInput == [i \in 1..(MaxInputLength + 1) |-> IF i = 1 THEN "/" ELSE "h"]

\* what the user types: a prefix of a static command, a command no static
\* command matches, a subcommand with an argument, an extension command with
\* an argument, text that is no command, an over-long command
SlashInputs ==
    { <<"/", "h">>,
      <<"/", "x">>,
      <<"/", "c", "h", "a", "t", " ", "r", "e", "s", "u", "m", "e", " ">>,
      <<"/", "c", ":", "s", " ">>,
      <<"h", "i">>,
      LongInput }

\* what fetchCompletions resolves with
BackendResults ==
    { <<>>,
      << <<"/", "x", "1">> >>,
      << <<"/", "x", "1">>, <<"/", "x", "2">> >> }

NextSlash ==
    \/ \E input \in SlashInputs : HandleInputChange(input)
    \/ TimerFires
    \/ \E k \in 1..MaxFetches, results \in BackendResults : FetchResolves(k, results)
    \/ \E k \in 1..MaxFetches : FetchRejects(k)
    \/ SelectCommand
    \/ CloseAutocomplete
    \/ HighlightUp
    \/ HighlightDown

SpecSlash == InitSlash /\ [][NextSlash]_vars

\* C35: backend completion results are applied only when the latest input
\* still equals the input the fetch was scheduled for, checked when the
\* debounce timer fires and when the fetch resolves; results for a superseded
\* input never replace the suggestions shown for the current input.
C35_StaleCompletionsDiscarded ==
    [][/\ \A k \in 1..Len(slash.fetches), results \in BackendResults :
             FetchResolves(k, results) /\ slash.fetches[k] # slash.lastInput =>
                /\ slash'.suggestions = slash.suggestions
                /\ slash'.show = slash.show
                /\ slash'.highlight = slash.highlight
       /\ TimerFires /\ slash.timer[1] # slash.lastInput =>
             slash'.fetches = slash.fetches
       /\ slash'.suggestions # slash.suggestions =>
             \/ slash'.last = "input"
             \/ \E k \in 1..Len(slash.fetches) :
                   /\ slash.fetches[k] = slash.lastInput
                   /\ slash'.fetches = RemoveAt(slash.fetches, k)
                   /\ slash'.lastInput = slash.lastInput]_vars

\* the completions of "/x" arrived after the user went on to "/h": the
\* suggestions of "/h" stay
C35_Witness ==
    /\ slash.last = "stale"
    /\ slash.lastInput = <<"/", "h">>
    /\ slash.suggestions = << <<"/", "h", "e", "l", "p">> >>
    /\ slash.show

\* C36: after closeAutocomplete or selectCommand the autocomplete stays hidden
\* until the next handleInputChange: neither a pending debounce timer nor a
\* fetch in flight sets showAutocomplete back to true.
C36_HiddenUntilNextInput == slash.dismissed => ~slash.show

\* C37: getHighlightedCommand returns null or an element of the current
\* suggestions; while the suggestions are non-empty highlightUp and
\* highlightDown keep highlightIndex within 0..length-1, wrapping around; every
\* replacement of the suggestions resets highlightIndex to 0.
C37_HighlightWithinSuggestions ==
    /\ [](/\ \/ getHighlightedCommand(slash) = NoCommand
             \/ \E i \in 1..Len(slash.suggestions) :
                   slash.suggestions[i] = getHighlightedCommand(slash)
          /\ slash.suggestions # <<>> =>
                slash.highlight \in 0..(Len(slash.suggestions) - 1))
    /\ [][/\ HighlightUp /\ slash.suggestions # <<>> =>
                slash'.highlight =
                   (slash.highlight + Len(slash.suggestions) - 1) % Len(slash.suggestions)
          /\ HighlightDown /\ slash.suggestions # <<>> =>
                slash'.highlight = (slash.highlight + 1) % Len(slash.suggestions)
          /\ slash'.suggestions # slash.suggestions \/ slash'.last \in {"input", "applied"} =>
                slash'.highlight = 0]_vars

\* highlightDown on the last of two suggestions wrapped around to the first
C37_Witness ==
    /\ slash.last = "down"
    /\ Len(slash.suggestions) = 2
    /\ slash.highlight = 0
    /\ getHighlightedCommand(slash) = slash.suggestions[1]

-----------------------------------------------------------------------------
\* Edit dialog (specification SpecDialog).

\* the drafts the user types and getEditableMessage returns
Drafts == { <<"a">>, <<"b">> }

\* what getEditableMessage answers: a failure, the content at the index asked
\* for, the content of a message with token parts found at another index
LoadResults ==
    { [success |-> FALSE, resolvedIndex |-> Null, content |-> <<>>,
       tokenSetId |-> Unset, format |-> Unset, parts |-> <<>>],
      [success |-> TRUE, resolvedIndex |-> Null, content |-> <<"a">>,
       tokenSetId |-> Unset, format |-> Unset, parts |-> <<>>],
      [success |-> TRUE, resolvedIndex |-> 0, content |-> <<"a">>,
       tokenSetId |-> "t1", format |-> "tokens", parts |-> <<"p1">>] }

NextDialog ==
    \/ \E historyIndex \in 1..MaxIndex, mode \in {"inPlace", "fork"} :
          StartEdit(historyIndex, mode, Unset)
    \/ \E k \in 1..MaxRequests, result \in LoadResults : LoadSettled(k, result)
    \/ \E content \in Drafts : SetEditContent(content)
    \/ HandlePartSave("p1")
    \/ HandleEditConfirm
    \/ \E k \in 1..MaxRequests, success \in BOOLEAN : EditSettled(k, success)
    \/ HandleEditCancel

SpecDialog == Init /\ [][NextDialog]_vars

\* an edit RPC in flight settled in this step
EditRpcSettled(k) ==
    /\ k \in 1..Len(dialog.requests)
    /\ dialog.requests[k].kind = "edit"
    /\ dialog'.requests = RemoveAt(dialog.requests, k)

\* C38: handleEditConfirm issues no RPC when no message index is set; on a
\* successful edit RPC the dialog closes and index, content, format, token
\* set, token parts and part overrides are cleared; on a failed edit RPC the
\* dialog stays as it is, open with the draft content, the target index and
\* the overrides unchanged; in both cases editLoading ends false.
C38_EditConfirmOutcomes ==
    [][/\ HandleEditConfirm /\ dialog.index = Null =>
             dialog'.requests = dialog.requests
       /\ \A k \in 1..MaxRequests :
             EditRpcSettled(k) /\ dialog'.toast = "Saved successfully" =>
                /\ ~dialog'.visible
                /\ dialog'.index = Null
                /\ dialog'.content = <<>>
                /\ dialog'.format = Unset
                /\ dialog'.tokenSetId = Unset
                /\ dialog'.parts = <<>>
                /\ dialog'.overrides = {}
                /\ ~dialog'.loading
       /\ \A k \in 1..MaxRequests :
             EditRpcSettled(k) /\ dialog'.toast # "Saved successfully" =>
                /\ dialog'.visible = dialog.visible
                /\ dialog'.content = dialog.content
                /\ dialog'.index = dialog.index
                /\ dialog'.overrides = dialog.overrides
                /\ ~dialog'.loading]_vars

\* the edit of message 1 with draft "b" and an overridden part failed: the
\* dialog is still open on it
C38_Witness ==
    /\ dialog.toast = "Failed to update message."
    /\ dialog.visible
    /\ dialog.content = <<"b">>
    /\ dialog.index = 0
    /\ dialog.overrides = {"p1"}
    /\ ~dialog.loading
    /\ dialog.requests = <<>>


====
